---- MODULE Spec2Model ----
(***************************************************************************)
(* Model of the kernel argument-binding engine of OpenCLOn12               *)
(* (src/src/kernel.cpp): name-based kernel creation over the devices of a  *)
(* program (clCreateKernel), construction of a kernel instance with its    *)
(* literal samplers and inline constants (Kernel::Kernel), argument        *)
(* binding (Kernel::SetArg) and cloning (clCloneKernel).                   *)
(***************************************************************************)
EXTENDS Integers, Sequences, FiniteSets, TLC

----------------------------------------------------------------------------
(* Bounds of the model. *)

\* Devices associated with the program (program.m_AssociatedDevices).
NumDevices == 2
\* API calls of one behaviour that create a kernel object (clCreateKernel,
\* clCloneKernel) or set an argument (clSetKernelArg).
MaxCalls == 4

----------------------------------------------------------------------------
(* Program constants. *)

\* sizeof(cl_mem) and sizeof(cl_sampler): an opaque handle (a pointer).
SizeofClMem == 8
SizeofClSampler == 8
\* First value of the channel-order range (CL_R = 0x10B0) and of the
\* channel-data-type range (CL_SNORM_INT8 = 0x10D0).
CL_R == 4272
CL_SNORM_INT8 == 4304
\* First value of the addressing-mode range (CL_ADDRESS_NONE = 0x1130) and
\* of the filter-mode range (CL_FILTER_NEAREST = 0x1140).
CL_ADDRESS_NONE == 4400
CL_FILTER_NEAREST == 4416
CL_FILTER_LINEAR == 4417

----------------------------------------------------------------------------
(* Bytes.  The constant-buffer blob is a function from byte offsets        *)
(* 0..size-1 to bytes; multi-byte values are stored little-endian.         *)

RECURSIVE Pow256(_)
Pow256(n) == IF n = 0 THEN 1 ELSE 256 * Pow256(n - 1)

\* The 4 bytes of a 32-bit unsigned value.
LE32(v) == [i \in 0..3 |-> (v \div Pow256(i)) % 256]

\* The 8 bytes of a 64-bit value given by its two 32-bit halves.
LE64(hi, lo) == [i \in 0..7 |-> IF i < 4 THEN LE32(lo)[i] ELSE LE32(hi)[i - 4]]

\* A size_t: 64 bits, as its upper and lower 32-bit halves. The sizes of the
\* model have the top bit of the lower half clear.
SizeT(n) == [hi |-> 0, lo |-> n]

\* A cl_uint: 32 bits unsigned, as its upper and lower 16-bit halves.
ClUint(n) == [hi |-> n \div 65536, lo |-> n % 65536]

\* 0xFFFFFFFF.
ClUintMax == [hi |-> 65535, lo |-> 65535]

\* u + 1 in cl_uint arithmetic: modulo 2^32.
PlusOne(u) ==
    IF u.lo < 65535 THEN [hi |-> u.hi, lo |-> u.lo + 1]
    ELSE IF u.hi < 65535 THEN [hi |-> u.hi + 1, lo |-> 0]
    ELSE [hi |-> 0, lo |-> 0]

\* u > v on cl_uint values.
Greater(u, v) == u.hi > v.hi \/ (u.hi = v.hi /\ u.lo > v.lo)

\* (cl_uint)size: the lower 32 bits, as a number.
ToClUint(size) == size.lo

\* The 8 bytes of ~0ull.
AllOnes64 == [i \in 0..7 |-> 255]

\* memcpy(blob + offset, bytes, n), bytes a function over 0..n-1.
WriteBytes(blob, offset, bytes, n) ==
    [i \in DOMAIN blob |->
        IF i >= offset /\ i < offset + n THEN bytes[i - offset] ELSE blob[i]]

\* The n bytes of the blob at offset.
ReadBytes(blob, offset, n) == [i \in 0..(n - 1) |-> blob[offset + i]]

----------------------------------------------------------------------------
(* Object handles.  A handle is a record naming the object; Null is        *)
(* nullptr.  Memory objects and samplers with owner 0 are created by the   *)
(* application; the literal objects a kernel creates for itself carry the  *)
(* id of the kernel object that created them.                              *)

Null == [tag |-> "null", owner |-> 0, n |-> 0]
MemObj(n) == [tag |-> "mem", owner |-> 0, n |-> n]
SamplerObj(n) == [tag |-> "sampler", owner |-> 0, n |-> n]
InlineConstObj(k, j) == [tag |-> "inlineConst", owner |-> k, n |-> j]
ConstSamplerObj(k, j) == [tag |-> "constSampler", owner |-> k, n |-> j]

Buf1 == MemObj(1)
Img2dRW == MemObj(2)
Img2dRO == MemObj(3)
Img2dWO == MemObj(4)
Img3dRW == MemObj(5)

\* The application's memory objects.
Resources == {Buf1, Img2dRW, Img2dRO, Img2dWO, Img3dRW}

\* Resource::m_Desc.image_type, m_Flags and m_Format of a memory object.
\* Channel orders: CL_RGBA = 0x10B5, CL_BGRA = 0x10B6, CL_RG = 0x10B2;
\* channel types: CL_UNORM_INT8 = 0x10D2, CL_FLOAT = 0x10DE, CL_HALF_FLOAT = 0x10DD.
ResourceOf(h) ==
    CASE h = Buf1 ->
           [image_type |-> "CL_MEM_OBJECT_BUFFER", m_Flags |-> {"CL_MEM_READ_WRITE"},
            m_Format |-> [image_channel_order |-> 0, image_channel_data_type |-> 0]]
      [] h = Img2dRW ->
           [image_type |-> "CL_MEM_OBJECT_IMAGE2D", m_Flags |-> {"CL_MEM_READ_WRITE"},
            m_Format |-> [image_channel_order |-> 4277, image_channel_data_type |-> 4306]]
      [] h = Img2dRO ->
           [image_type |-> "CL_MEM_OBJECT_IMAGE2D", m_Flags |-> {"CL_MEM_READ_ONLY"},
            m_Format |-> [image_channel_order |-> 4278, image_channel_data_type |-> 4318]]
      [] h = Img2dWO ->
           [image_type |-> "CL_MEM_OBJECT_IMAGE2D", m_Flags |-> {"CL_MEM_WRITE_ONLY"},
            m_Format |-> [image_channel_order |-> 4274, image_channel_data_type |-> 4317]]
      [] h = Img3dRW ->
           [image_type |-> "CL_MEM_OBJECT_IMAGE3D", m_Flags |-> {"CL_MEM_READ_WRITE"},
            m_Format |-> [image_channel_order |-> 4277, image_channel_data_type |-> 4318]]
      [] OTHER ->
           \* an inline constant buffer created by Kernel::Kernel
           [image_type |-> "CL_MEM_OBJECT_BUFFER",
            m_Flags |-> {"CL_MEM_COPY_HOST_PTR", "CL_MEM_READ_ONLY", "CL_MEM_HOST_NO_ACCESS"},
            m_Format |-> [image_channel_order |-> 0, image_channel_data_type |-> 0]]

Smp1 == SamplerObj(1)
Smp2 == SamplerObj(2)

\* The application's samplers.
Samplers == {Smp1, Smp2}

\* Sampler::m_Desc of an application sampler.
\* CL_ADDRESS_CLAMP = 0x1132, CL_ADDRESS_REPEAT = 0x1133.
SamplerDescOf(h) ==
    IF h = Smp1
    THEN [NormalizedCoords |-> 0, AddressingMode |-> 4403, FilterMode |-> CL_FILTER_LINEAR]
    ELSE [NormalizedCoords |-> 1, AddressingMode |-> 4402, FilterMode |-> CL_FILTER_NEAREST]

----------------------------------------------------------------------------
(* Compiled metadata (CompiledDxil::Metadata) of the kernels of the        *)
(* program.  Vectors are functions over 0..n-1.                            *)

ZeroBased(seq) == [i \in 0..(Len(seq) - 1) |-> seq[i + 1]]
Size(vec) == Cardinality(DOMAIN vec)
EmptyVec == [i \in {} |-> 0]

ArgInfo(type_name, name, address_qualifier, readable, writable) ==
    [type_name |-> type_name, name |-> name, address_qualifier |-> address_qualifier,
     readable |-> readable, writable |-> writable,
     is_const |-> FALSE, is_restrict |-> FALSE, is_volatile |-> FALSE]

ImageProps(ids) == [kind |-> "Image", buffer_ids |-> ZeroBased(ids), num_buffer_ids |-> Len(ids)]
MemoryProps(id) == [kind |-> "Memory", buffer_id |-> id]
SamplerProps(id) == [kind |-> "Sampler", sampler_id |-> id]
LocalProps == [kind |-> "Local"]
ScalarProps == [kind |-> "Scalar"]

ArgMeta(offset, size, properties) == [offset |-> offset, size |-> size, properties |-> properties]

\* __kernel void blit(read_only image2d_t src, read_write image2d_t dst,
\*                    write_only image2d_t out): dst is a two-plane image.
BlitMeta ==
    [program_kernel_info |->
        [name |-> "blit",
         args |-> ZeroBased(<<ArgInfo("image2d_t", "src", "Global", TRUE, FALSE),
                              ArgInfo("image2d_t", "dst", "Global", TRUE, TRUE),
                              ArgInfo("image2d_t", "out", "Global", FALSE, TRUE)>>)],
     args |-> ZeroBased(<<ArgMeta(0, 8, ImageProps(<<0>>)),
                          ArgMeta(8, 8, ImageProps(<<0, 1>>)),
                          ArgMeta(16, 8, ImageProps(<<2>>))>>),
     kernel_inputs_cbv_id |-> ClUint(0), work_properties_cbv_id |-> ClUint(1),
     num_uavs |-> 3, num_srvs |-> 1, num_samplers |-> 0,
     kernel_inputs_buf_size |-> 24, local_mem_size |-> 0,
     constSamplers |-> EmptyVec, consts |-> EmptyVec]

\* __kernel void saxpy(__global float* x, short n), with a literal
\* constant-data blob the compiler placed at UAV slot 0.
SaxpyMeta ==
    [program_kernel_info |->
        [name |-> "saxpy",
         args |-> ZeroBased(<<ArgInfo("float*", "x", "Global", TRUE, TRUE),
                              ArgInfo("short", "n", "Private", TRUE, FALSE)>>)],
     args |-> ZeroBased(<<ArgMeta(0, 8, MemoryProps(1)),
                          ArgMeta(8, 2, ScalarProps)>>),
     kernel_inputs_cbv_id |-> ClUint(1), work_properties_cbv_id |-> ClUint(0),
     num_uavs |-> 2, num_srvs |-> 0, num_samplers |-> 0,
     kernel_inputs_buf_size |-> 10, local_mem_size |-> 0,
     constSamplers |-> EmptyVec,
     consts |-> ZeroBased(<<[uav_id |-> 0, size |-> 4]>>)]

\* __kernel void filter(sampler_t smp, __local int* scratch), with two
\* literal samplers the compiler placed at sampler slots 2 and 0 (addressing
\* and filter modes in the SPIR-V encoding).
FilterMeta ==
    [program_kernel_info |->
        [name |-> "filter",
         args |-> ZeroBased(<<ArgInfo("sampler_t", "smp", "Private", TRUE, FALSE),
                              ArgInfo("int*", "scratch", "Local", TRUE, TRUE)>>)],
     args |-> ZeroBased(<<ArgMeta(0, 8, SamplerProps(1)),
                          ArgMeta(8, 4, LocalProps)>>),
     kernel_inputs_cbv_id |-> ClUint(0), work_properties_cbv_id |-> ClUint(1),
     num_uavs |-> 0, num_srvs |-> 0, num_samplers |-> 3,
     kernel_inputs_buf_size |-> 12, local_mem_size |-> 20,
     constSamplers |-> ZeroBased(<<[sampler_id |-> 2, normalized_coords |-> 1,
                                    addressing_mode |-> 2, filter_mode |-> 1],
                                   [sampler_id |-> 0, normalized_coords |-> 0,
                                    addressing_mode |-> 1, filter_mode |-> 0]>>),
     consts |-> EmptyVec]

\* blit as another device's compiler may describe it: argument 0 differs
\* from BlitMeta in exactly one field of its signature.
BlitVariant(field) ==
    LET a == BlitMeta.program_kernel_info.args[0]
        b == CASE field = "type_name" -> [a EXCEPT !.type_name = "image2d_array_t"]
               [] field = "name" -> [a EXCEPT !.name = "source"]
               [] field = "address_qualifier" -> [a EXCEPT !.address_qualifier = "Constant"]
               [] field = "readable" -> [a EXCEPT !.readable = FALSE]
               [] field = "writable" -> [a EXCEPT !.writable = TRUE]
               [] field = "is_const" -> [a EXCEPT !.is_const = TRUE]
               [] field = "is_restrict" -> [a EXCEPT !.is_restrict = TRUE]
               [] field = "is_volatile" -> [a EXCEPT !.is_volatile = TRUE]
    IN  [BlitMeta EXCEPT !.program_kernel_info.args[0] = b]

SignatureFields ==
    {"type_name", "name", "address_qualifier", "readable", "writable",
     "is_const", "is_restrict", "is_volatile"}

\* blit with its first two arguments only (a different argument count).
BlitTwoArgs ==
    [BlitMeta EXCEPT !.program_kernel_info.args =
                         ZeroBased(<<BlitMeta.program_kernel_info.args[0],
                                     BlitMeta.program_kernel_info.args[1]>>),
                     !.args = ZeroBased(<<BlitMeta.args[0], BlitMeta.args[1]>>)]

----------------------------------------------------------------------------
(* Build data of one device (Program::m_BuildData[device]). The programs   *)
(* of the model hold one kernel each. A kernel of the binary whose generic *)
(* DXIL failed to compile has m_GenericDxil null.                          *)

NullDxil == [null |-> TRUE]

\* BuildData::m_Kernels of a binary holding the kernel name.
KernelsOf(name, dxil) == [n \in {name} |-> [m_GenericDxil |-> dxil]]

\* No entry in m_BuildData for the device.
NoBuild ==
    [present |-> FALSE, m_BuildStatus |-> "CL_BUILD_NONE",
     m_BinaryType |-> "CL_PROGRAM_BINARY_TYPE_NONE", m_Kernels |-> EmptyVec]

FailedBuild ==
    [present |-> TRUE, m_BuildStatus |-> "CL_BUILD_ERROR",
     m_BinaryType |-> "CL_PROGRAM_BINARY_TYPE_NONE", m_Kernels |-> EmptyVec]

\* Compiled, not linked to an executable.
LibraryBuild ==
    [present |-> TRUE, m_BuildStatus |-> "CL_BUILD_SUCCESS",
     m_BinaryType |-> "CL_PROGRAM_BINARY_TYPE_LIBRARY", m_Kernels |-> KernelsOf("blit", BlitMeta)]

ExecutableBuild(name, dxil) ==
    [present |-> TRUE, m_BuildStatus |-> "CL_BUILD_SUCCESS",
     m_BinaryType |-> "CL_PROGRAM_BINARY_TYPE_EXECUTABLE", m_Kernels |-> KernelsOf(name, dxil)]

\* What the build of one device can have left behind for a program whose
\* kernel is blit: no build, a failed one, a library, an executable without
\* blit, and executables whose blit has no DXIL, the signature of BlitMeta
\* or one differing from it.
DeviceBuilds ==
    {NoBuild, FailedBuild, LibraryBuild, ExecutableBuild("filter", FilterMeta),
     ExecutableBuild("blit", NullDxil), ExecutableBuild("blit", BlitMeta),
     ExecutableBuild("blit", BlitTwoArgs)}
    \cup {ExecutableBuild("blit", BlitVariant(f)) : f \in SignatureFields}

Devices == 1..NumDevices
KernelIds == 1..MaxCalls
\* Names clCreateKernel is called with.
KernelNames == {"blit", "saxpy", "filter"}

----------------------------------------------------------------------------
(* State. *)

VARIABLES
    buildData,    \* Program::m_BuildData: the build data of each device
    kernels,      \* the Kernel object behind each cl_kernel handle, or NoKernel
    liveKernels,  \* the program's count of live kernels (KernelCreated/KernelFreed)
    refs,         \* the reference count of each cl_kernel handle, 0 without object
    literals,     \* the reference count of each literal sampler and inline constant
    out,          \* the array the last clCreateKernelsInProgram was given; 0 is unwritten
    pending,      \* a clCreateKernel past the program's lock, not yet constructed
    ret,          \* the last API call and what it returned
    calls,        \* kernel objects created and calls on kernel handles made so far
    crashed       \* the process has died (null dereference, wild read)

vars == <<buildData, kernels, liveKernels, refs, literals, out, pending, ret, calls, crashed>>

NoKernel == [alive |-> FALSE]

NoPending == [selected |-> FALSE]

\* The record of an API call: the entry point, the error code it returned,
\* and its handles and inputs: kernel is the handle a creation returned (0 is
\* nullptr) or the kernel clSetKernelArg was called on, name the kernel name
\* of clCreateKernel, source_kernel the source of clCloneKernel, arg_index
\* the argument index of clSetKernelArg.
Returned(op, code, kernel, name, source_kernel, arg_index) ==
    [op |-> op, code |-> code, kernel |-> kernel, name |-> name,
     source_kernel |-> source_kernel, arg_index |-> arg_index]

Max(a, b) == IF Greater(a, b) THEN a ELSE b

\* Program::KernelCreated and Program::KernelFreed on the program's count of
\* live kernels.
KernelCreated(count) == count + 1
KernelFreed(count) == count - 1

----------------------------------------------------------------------------
(* Resource declarations (DeclsFromMetadata) and the lookups it uses. *)

MemObjectTypeFromName(name) ==
    CASE name = "image1d_buffer_t" -> "CL_MEM_OBJECT_IMAGE1D_BUFFER"
      [] name = "image1d_t" -> "CL_MEM_OBJECT_IMAGE1D"
      [] name = "image1d_array_t" -> "CL_MEM_OBJECT_IMAGE1D_ARRAY"
      [] name = "image2d_t" -> "CL_MEM_OBJECT_IMAGE2D"
      [] name = "image2d_array_t" -> "CL_MEM_OBJECT_IMAGE2D_ARRAY"
      [] name = "image3d_t" -> "CL_MEM_OBJECT_IMAGE3D"
      [] OTHER -> "0"

ResourceDimensionFromMemObjectType(type) ==
    CASE type = "CL_MEM_OBJECT_IMAGE1D" -> "TEXTURE1D"
      [] type = "CL_MEM_OBJECT_IMAGE1D_ARRAY" -> "TEXTURE1DARRAY"
      [] type = "CL_MEM_OBJECT_IMAGE1D_BUFFER" -> "BUFFER"
      [] type = "CL_MEM_OBJECT_IMAGE2D" -> "TEXTURE2D"
      [] type = "CL_MEM_OBJECT_IMAGE2D_ARRAY" -> "TEXTURE2DARRAY"
      [] type = "CL_MEM_OBJECT_IMAGE3D" -> "TEXTURE3D"
      [] OTHER -> "UNKNOWN"

IsMemAddressSpace(address_qualifier) ==
    address_qualifier = "Global" \/ address_qualifier = "Constant"

\* vec with value stored at every slot id the image payload lists
\* (for (j = 0; j < num_buffer_ids; ++j) vec[buffer_ids[j]] = value).
StoreAtImageSlots(vec, image_meta, value) ==
    [s \in DOMAIN vec |->
        IF \E j \in 0..(image_meta.num_buffer_ids - 1) : image_meta.buffer_ids[j] = s
        THEN value ELSE vec[s]]

\* The body of the loop over the arguments, from argument i on.
RECURSIVE DeclareArgs(_, _, _)
DeclareArgs(decls, metadata, i) ==
    IF i >= Size(metadata.args) THEN decls
    ELSE LET arg_info == metadata.program_kernel_info.args[i]
             arg_meta == metadata.args[i]
             imageType == MemObjectTypeFromName(arg_info.type_name)
             dim == ResourceDimensionFromMemObjectType(imageType)
             next ==
                IF ~IsMemAddressSpace(arg_info.address_qualifier) THEN decls
                ELSE IF imageType # "0"
                THEN IF arg_info.writable
                     THEN [decls EXCEPT !.m_UAVDecls =
                              StoreAtImageSlots(@, arg_meta.properties, dim)]
                     ELSE [decls EXCEPT !.m_ResourceDecls =
                              StoreAtImageSlots(@, arg_meta.properties, dim)]
                ELSE [decls EXCEPT !.m_UAVDecls[arg_meta.properties.buffer_id] = "BUFFER"]
         IN  DeclareArgs(next, metadata, i + 1)

DeclsFromMetadata(metadata) ==
    DeclareArgs(
        [m_NumCBs |-> Max(PlusOne(metadata.kernel_inputs_cbv_id),
                          PlusOne(metadata.work_properties_cbv_id)),
         m_NumSamplers |-> metadata.num_samplers,
         m_ResourceDecls |-> [s \in 0..(metadata.num_srvs - 1) |-> "UNKNOWN"],
         m_UAVDecls |-> [s \in 0..(metadata.num_uavs - 1) |-> "UNKNOWN"]],
        metadata, 0)

----------------------------------------------------------------------------
(* Construction of a kernel instance (Kernel::Kernel). *)

CLAddressingModeFromSpirv(addressing_mode) == addressing_mode + CL_ADDRESS_NONE

\* SpirvAddressingModeFromCL without the subtraction.
SpirvAddressingModeFromCL_Unbiased(mode) == mode

SpirvAddressingModeFromCL(mode) == mode - CL_ADDRESS_NONE

CLFilterModeFromSpirv(filter_mode) == filter_mode + CL_FILTER_NEAREST

\* The initial compiler configuration of one argument.
InitialConfig(meta) ==
    IF meta.properties.kind = "Local" THEN [kind |-> "Local", size |-> 0]
    ELSE IF meta.properties.kind = "Sampler"
    THEN [kind |-> "Sampler", normalizedCoords |-> 0, addressingMode |-> 0, linearFiltering |-> 0]
    ELSE [kind |-> "none"]

\* The literal sampler created for constSamplers[j] by kernel object k.
ConstSampler(k, samplerMeta, j) ==
    [obj |-> ConstSamplerObj(k, j),
     m_Desc |-> [NormalizedCoords |-> samplerMeta.normalized_coords,
                 AddressingMode |-> CLAddressingModeFromSpirv(samplerMeta.addressing_mode),
                 FilterMode |-> CLFilterModeFromSpirv(samplerMeta.filter_mode)]]

\* m_Samplers after the loop over the literal samplers, from sampler j on.
RECURSIVE PlaceConstSamplers(_, _, _, _)
PlaceConstSamplers(samplers, k, constSamplers, j) ==
    IF j >= Size(constSamplers) THEN samplers
    ELSE PlaceConstSamplers(
            [samplers EXCEPT ![constSamplers[j].sampler_id] = ConstSamplerObj(k, j)],
            k, constSamplers, j + 1)

\* What clCreateBuffer returns for consts[j]: the new buffer, or nullptr
\* when the creation fails (errcode_ret is nullptr and the result is not tested).
InlineConst(k, j, failed) == IF j \in failed THEN Null ELSE InlineConstObj(k, j)

\* m_UAVs after the loop over the literal constant data, from blob j on.
RECURSIVE PlaceInlineConsts(_, _, _, _, _)
PlaceInlineConsts(uavs, k, consts, failed, j) ==
    IF j >= Size(consts) THEN uavs
    ELSE PlaceInlineConsts(
            [uavs EXCEPT ![consts[j].uav_id] = InlineConst(k, j, failed)],
            k, consts, failed, j + 1)

\* The literal objects whose references the kernel object K owns: the
\* elements of m_ConstSamplers and the non-null elements of m_InlineConsts.
LiteralsOf(K) ==
    {K.m_ConstSamplers[j].obj : j \in DOMAIN K.m_ConstSamplers}
       \cup ({K.m_InlineConsts[j] : j \in DOMAIN K.m_InlineConsts} \ {Null})

\* The reference counts after the constructor: each literal object it
\* created is held by one reference, that of the new kernel object.
CreatedWith(lit, K) ==
    [o \in DOMAIN lit \cup LiteralsOf(K) |-> IF o \in LiteralsOf(K) THEN 1 ELSE lit[o]]

\* The copy of m_ConstSamplers and m_InlineConsts without a reference taken.
SharedByCopy_NoReference(lit, other) == lit

\* The reference counts after the copy constructor: the copies of
\* m_ConstSamplers and m_InlineConsts hold one more reference to each object.
SharedByCopy(lit, other) ==
    [o \in DOMAIN lit |-> IF o \in LiteralsOf(other) THEN lit[o] + 1 ELSE lit[o]]

\* The reference counts after the destructor: the members m_ConstSamplers
\* and m_InlineConsts drop their references; an object whose count reaches 0
\* is destroyed.
MembersDestroyed(lit, K) ==
    [o \in DOMAIN lit |-> IF o \in LiteralsOf(K) THEN lit[o] - 1 ELSE lit[o]]

\* The kernel object k built from the compiled artifact Dxil, when nothing
\* throws; failed are the literal constant blobs whose buffer creation fails.
NewKernel(k, name, Dxil, failed) ==
    LET metadata == Dxil.metadata
        decls == DeclsFromMetadata(metadata)
    IN  [alive |-> TRUE,
         m_Dxil |-> Dxil,
         m_Name |-> name,
         m_ShaderDecls |-> decls,
         m_UAVs |-> PlaceInlineConsts([s \in DOMAIN decls.m_UAVDecls |-> Null],
                                      k, metadata.consts, failed, 0),
         m_SRVs |-> [s \in DOMAIN decls.m_ResourceDecls |-> Null],
         m_Samplers |-> PlaceConstSamplers([s \in 0..(decls.m_NumSamplers - 1) |-> Null],
                                           k, metadata.constSamplers, 0),
         m_ArgMetadataToCompiler |->
            [i \in DOMAIN metadata.args |-> [config |-> InitialConfig(metadata.args[i])]],
         m_KernelArgsCbData |-> [b \in 0..(metadata.kernel_inputs_buf_size - 1) |-> 0],
         m_ConstSamplers |->
            [j \in DOMAIN metadata.constSamplers |-> ConstSampler(k, metadata.constSamplers[j], j)],
         m_InlineConsts |-> [j \in DOMAIN metadata.consts |-> InlineConst(k, j, failed)]]

\* What can be thrown while the constructor runs: std::bad_alloc by any
\* allocation, std::exception or _com_error by the creation of a literal sampler.
Throwables(metadata) ==
    {"none", "bad_alloc"} \cup
    (IF Size(metadata.constSamplers) > 0 THEN {"exception", "com_error"} ELSE {})

\* The error clCreateKernel's catch clauses report for what was thrown.
CaughtCode(thrown) ==
    IF thrown = "bad_alloc" THEN "CL_OUT_OF_HOST_MEMORY" ELSE "CL_OUT_OF_RESOURCES"

----------------------------------------------------------------------------
(* Name-based kernel creation (clCreateKernel). *)

\* The devices clCreateKernel counts in DeviceCountWithProgram.
\* HasProgram without the test of the binary type.
HasProgram_AnyBinary(BuildData) ==
    /\ BuildData.present
    /\ BuildData.m_BuildStatus = "CL_BUILD_SUCCESS"

HasProgram(BuildData) ==
    /\ BuildData.present
    /\ BuildData.m_BuildStatus = "CL_BUILD_SUCCESS"
    /\ BuildData.m_BinaryType = "CL_PROGRAM_BINARY_TYPE_EXECUTABLE"

\* The comparison of one argument of two devices.
ArgDiffers(a, b) ==
    \/ a.type_name # b.type_name
    \/ a.name # b.name
    \/ a.address_qualifier # b.address_qualifier
    \/ a.readable # b.readable
    \/ a.writable # b.writable
    \/ a.is_const # b.is_const
    \/ a.is_restrict # b.is_restrict
    \/ a.is_volatile # b.is_volatile

\* The value of the pointer `kernel` after the device d, which exposes the
\* kernel, has been compared: kernel = iter->second.m_GenericDxil.get().
\* A pointer to a device's artifact is the number of the device; 0 is nullptr.
NextReference_KeepsFirst(kernel, d, dxil) ==
    IF dxil = NullDxil THEN 0 ELSE IF kernel # 0 THEN kernel ELSE d

NextReference(kernel, d, dxil) == IF dxil = NullDxil THEN 0 ELSE d

Resolution(outcome, code, kernel) == [outcome |-> outcome, code |-> code, kernel |-> kernel]

\* The loop over program.m_AssociatedDevices from device d on, and the two
\* tests after it. `kernel` is the device whose artifact the pointer `kernel`
\* refers to. Dereferencing the null m_GenericDxil of a later device kills
\* the process.
RECURSIVE ScanDevices(_, _, _, _, _, _)
ScanDevices(bd, kernel_name, d, kernel, DeviceCountWithProgram, DeviceCountWithKernel) ==
    IF d > NumDevices
    THEN IF DeviceCountWithProgram = 0
         THEN Resolution("error", "CL_INVALID_PROGRAM_EXECUTABLE", 0)
         ELSE IF DeviceCountWithKernel = 0
         THEN Resolution("error", "CL_INVALID_KERNEL_NAME", 0)
         ELSE Resolution("resolved", "CL_SUCCESS", kernel)
    ELSE IF ~HasProgram(bd[d])
    THEN ScanDevices(bd, kernel_name, d + 1, kernel,
                     DeviceCountWithProgram, DeviceCountWithKernel)
    ELSE IF kernel_name \notin DOMAIN bd[d].m_Kernels
    THEN ScanDevices(bd, kernel_name, d + 1, kernel,
                     DeviceCountWithProgram + 1, DeviceCountWithKernel)
    ELSE LET dxil == bd[d].m_Kernels[kernel_name].m_GenericDxil
             first_info == bd[kernel].m_Kernels[kernel_name].m_GenericDxil.program_kernel_info
             second_info == dxil.program_kernel_info
         IN  IF kernel # 0 /\ dxil = NullDxil
             THEN Resolution("crash", "none", 0)
             ELSE IF kernel # 0 /\ Size(first_info.args) # Size(second_info.args)
             THEN Resolution("error", "CL_INVALID_KERNEL_DEFINITION", 0)
             ELSE IF kernel # 0 /\ \E i \in DOMAIN first_info.args :
                                       ArgDiffers(first_info.args[i], second_info.args[i])
             THEN Resolution("error", "CL_INVALID_KERNEL_DEFINITION", 0)
             ELSE IF NextReference(kernel, d, dxil) = 0
             THEN Resolution("error", "CL_OUT_OF_RESOURCES", 0)
             ELSE ScanDevices(bd, kernel_name, d + 1, NextReference(kernel, d, dxil),
                              DeviceCountWithProgram + 1, DeviceCountWithKernel + 1)

\* The handle the next kernel object gets.
FreeIdIn(objects, lit) ==
    LET free == {k \in KernelIds :
                    /\ objects[k] = NoKernel
                    /\ \A o \in DOMAIN lit : o.owner = k => lit[o] = 0}
    IN  CHOOSE k \in free : \A j \in free : k <= j

FreeKernelId == FreeIdIn(kernels, literals)

\* The CompiledDxil object of device d for the kernel.
DxilOf(bd, d, kernel_name) ==
    [device |-> d, metadata |-> bd[d].m_Kernels[kernel_name].m_GenericDxil]

\* The try block of clCreateKernel: new Kernel(program, kernel_name, *kernel),
\* and what is caught.
Construct(kernel_name, Dxil) ==
    LET k == FreeKernelId
    IN  \E thrown \in Throwables(Dxil.metadata),
           failed \in SUBSET DOMAIN Dxil.metadata.consts :
          IF thrown # "none"
          THEN /\ ret' = Returned("clCreateKernel", CaughtCode(thrown), 0, kernel_name, 0, 0)
               /\ UNCHANGED <<kernels, liveKernels, refs, literals, out, calls>>
          ELSE /\ kernels' = [kernels EXCEPT ![k] = NewKernel(k, kernel_name, Dxil, failed)]
               /\ liveKernels' = KernelCreated(liveKernels)
               /\ refs' = [refs EXCEPT ![k] = 1]
               /\ literals' = CreatedWith(literals, NewKernel(k, kernel_name, Dxil, failed))
               /\ UNCHANGED out
               /\ ret' = Returned("clCreateKernel", "CL_SUCCESS", k, kernel_name, 0, 0)
               /\ calls' = calls + 1

\* clCreateKernel(program, kernel_name, &errcode) with no other thread at
\* work on the program.
CreateKernel(kernel_name) ==
    /\ ~crashed
    /\ calls < MaxCalls
    /\ LET r == ScanDevices(buildData, kernel_name, 1, 0, 0, 0)
       IN  CASE r.outcome = "crash" ->
                  /\ crashed' = TRUE
                  /\ ret' = Returned("clCreateKernel", "none", 0, kernel_name, 0, 0)
                  /\ UNCHANGED <<kernels, liveKernels, refs, literals, out, calls>>
             [] r.outcome = "error" ->
                  /\ ret' = Returned("clCreateKernel", r.code, 0, kernel_name, 0, 0)
                  /\ UNCHANGED <<kernels, liveKernels, refs, literals, out, crashed, calls>>
             [] r.outcome = "resolved" ->
                  /\ Construct(kernel_name, DxilOf(buildData, r.kernel, kernel_name))
                  /\ UNCHANGED crashed
    /\ UNCHANGED <<buildData, pending>>

----------------------------------------------------------------------------
(* Argument binding (Kernel::SetArg). *)

\* arg_value: a null pointer, a pointer to a handle (cl_mem or cl_sampler,
\* possibly the null handle) or a pointer to arg_size bytes.
PtrNull == [ptr |-> "null", handle |-> Null, bytes |-> EmptyVec]
PtrToHandle(h) == [ptr |-> "handle", handle |-> h, bytes |-> EmptyVec]
PtrToBytes(b) == [ptr |-> "bytes", handle |-> Null, bytes |-> b]

\* arg_value ? *reinterpret_cast<cl_mem const*>(arg_value) : nullptr
HandleAt(arg_value) == IF arg_value.ptr # "null" THEN arg_value.handle ELSE Null

Outcome(outcome, code, K) == [outcome |-> outcome, code |-> code, K |-> K]

\* ImageFlagsRejected without the write-only test of a read-write argument.
ImageFlagsRejected_NoWriteOnlyTest(arg_info, resource) ==
    IF arg_info.writable
    THEN resource # Null /\ "CL_MEM_READ_ONLY" \in ResourceOf(resource).m_Flags
    ELSE resource # Null /\ "CL_MEM_WRITE_ONLY" \in ResourceOf(resource).m_Flags

\* The access-flag tests of an image argument: TRUE when one of them rejects
\* the resource.
ImageFlagsRejected(arg_info, resource) ==
    IF arg_info.writable
    THEN \/ resource # Null /\ "CL_MEM_READ_ONLY" \in ResourceOf(resource).m_Flags
         \/ arg_info.readable /\ resource # Null
              /\ "CL_MEM_WRITE_ONLY" \in ResourceOf(resource).m_Flags
    ELSE resource # Null /\ "CL_MEM_WRITE_ONLY" \in ResourceOf(resource).m_Flags

\* ImageFormatInKernelArgs with the resource's format copied as it is.
ImageFormatInKernelArgs_Unbiased(resource) ==
    IF resource = Null THEN [i \in 0..7 |-> 0]
    ELSE LET m_Format == ResourceOf(resource).m_Format
             order == LE32(m_Format.image_channel_order)
             type == LE32(m_Format.image_channel_data_type)
         IN  [i \in 0..7 |-> IF i < 4 THEN order[i] ELSE type[i - 4]]

\* The cl_image_format stored in the kernel arguments: channel order, then
\* channel data type, both zero-based; all zero without a resource.
ImageFormatInKernelArgs(resource) ==
    IF resource = Null THEN [i \in 0..7 |-> 0]
    ELSE LET m_Format == ResourceOf(resource).m_Format
             order == LE32(m_Format.image_channel_order - CL_R)
             type == LE32(m_Format.image_channel_data_type - CL_SNORM_INT8)
         IN  [i \in 0..7 |-> IF i < 4 THEN order[i] ELSE type[i - 4]]

\* BufferVal with the slot id left unshifted.
BufferVal_Unshifted(resource, buffer_id) ==
    IF resource # Null THEN LE64(0, buffer_id) ELSE AllOnes64

\* *buffer_val: the slot id in the upper 32 bits, or ~0ull without a resource.
BufferVal(resource, buffer_id) ==
    IF resource # Null THEN LE64(buffer_id, 0) ELSE AllOnes64

\* The compiler configuration of a sampler argument bound to sampler.
SamplerConfig(sampler) ==
    [kind |-> "Sampler",
     normalizedCoords |-> IF sampler # Null THEN SamplerDescOf(sampler).NormalizedCoords ELSE 1,
     addressingMode |-> IF sampler # Null
                        THEN SpirvAddressingModeFromCL(SamplerDescOf(sampler).AddressingMode)
                        ELSE 0,
     linearFiltering |-> IF sampler # Null
                         THEN (IF SamplerDescOf(sampler).FilterMode = CL_FILTER_LINEAR THEN 1 ELSE 0)
                         ELSE 0]

\* BindImage with the slots stored ahead of the access-flag tests.
BindImage_StoresFirst(K, arg_info, arg_meta, resource, imageType) ==
    LET imageMeta == arg_meta.properties
        stored == IF arg_info.writable
                  THEN [K EXCEPT !.m_UAVs = StoreAtImageSlots(@, imageMeta, resource)]
                  ELSE [K EXCEPT !.m_SRVs = StoreAtImageSlots(@, imageMeta, resource)]
    IN  IF resource # Null /\ ResourceOf(resource).image_type # imageType
        THEN Outcome("return", "CL_INVALID_ARG_VALUE", K)
        ELSE IF ImageFlagsRejected(arg_info, resource)
        THEN Outcome("return", "CL_INVALID_ARG_VALUE", stored)
        ELSE Outcome("return", "CL_SUCCESS",
                     [stored EXCEPT !.m_KernelArgsCbData =
                         WriteBytes(@, arg_meta.offset, ImageFormatInKernelArgs(resource), 8)])

\* BindImage leaving the slots as they are when the resource is null.
BindImage_KeepsOnNull(K, arg_info, arg_meta, resource, imageType) ==
    LET imageMeta == arg_meta.properties
        header == WriteBytes(K.m_KernelArgsCbData, arg_meta.offset,
                             ImageFormatInKernelArgs(resource), 8)
    IN  IF resource # Null /\ ResourceOf(resource).image_type # imageType
        THEN Outcome("return", "CL_INVALID_ARG_VALUE", K)
        ELSE IF ImageFlagsRejected(arg_info, resource)
        THEN Outcome("return", "CL_INVALID_ARG_VALUE", K)
        ELSE IF resource = Null
        THEN Outcome("return", "CL_SUCCESS", [K EXCEPT !.m_KernelArgsCbData = header])
        ELSE IF arg_info.writable
        THEN Outcome("return", "CL_SUCCESS",
                     [K EXCEPT !.m_UAVs = StoreAtImageSlots(@, imageMeta, resource),
                               !.m_KernelArgsCbData = header])
        ELSE Outcome("return", "CL_SUCCESS",
                     [K EXCEPT !.m_SRVs = StoreAtImageSlots(@, imageMeta, resource),
                               !.m_KernelArgsCbData = header])

\* case Global, Constant: with an image type name.
BindImage(K, arg_info, arg_meta, resource, imageType) ==
    LET imageMeta == arg_meta.properties
        header == WriteBytes(K.m_KernelArgsCbData, arg_meta.offset,
                             ImageFormatInKernelArgs(resource), 8)
    IN  IF resource # Null /\ ResourceOf(resource).image_type # imageType
        THEN Outcome("return", "CL_INVALID_ARG_VALUE", K)
        ELSE IF ImageFlagsRejected(arg_info, resource)
        THEN Outcome("return", "CL_INVALID_ARG_VALUE", K)
        ELSE IF arg_info.writable
        THEN Outcome("return", "CL_SUCCESS",
                     [K EXCEPT !.m_UAVs = StoreAtImageSlots(@, imageMeta, resource),
                               !.m_KernelArgsCbData = header])
        ELSE Outcome("return", "CL_SUCCESS",
                     [K EXCEPT !.m_SRVs = StoreAtImageSlots(@, imageMeta, resource),
                               !.m_KernelArgsCbData = header])

\* case Global, Constant: without an image type name.
BindBuffer(K, arg_meta, resource) ==
    LET memMeta == arg_meta.properties
    IN  IF resource # Null /\ ResourceOf(resource).image_type # "CL_MEM_OBJECT_BUFFER"
        THEN Outcome("return", "CL_INVALID_ARG_VALUE", K)
        ELSE Outcome("return", "CL_SUCCESS",
                     [K EXCEPT !.m_UAVs[memMeta.buffer_id] = resource,
                               !.m_KernelArgsCbData =
                                   WriteBytes(@, arg_meta.offset,
                                              BufferVal(resource, memMeta.buffer_id), 8)])

\* case Private: sampler_t.
BindSampler(K, arg_index, arg_meta, arg_size, arg_value) ==
    LET sampler == HandleAt(arg_value)
        samplerMeta == arg_meta.properties
    IN  IF arg_size # SizeT(SizeofClSampler)
        THEN Outcome("return", "CL_INVALID_ARG_SIZE", K)
        ELSE Outcome("return", "CL_SUCCESS",
                     [K EXCEPT !.m_Samplers[samplerMeta.sampler_id] = sampler,
                               !.m_ArgMetadataToCompiler[arg_index].config = SamplerConfig(sampler)])

\* case Private: any other type. memcpy reads through arg_value: a null
\* arg_value kills the process.
BindScalar(K, arg_meta, arg_size, arg_value) ==
    IF arg_size # SizeT(arg_meta.size)
    THEN Outcome("return", "CL_INVALID_ARG_SIZE", K)
    ELSE IF arg_value.ptr = "null"
    THEN Outcome("crash", "none", K)
    ELSE Outcome("return", "CL_SUCCESS",
                 [K EXCEPT !.m_KernelArgsCbData =
                               WriteBytes(@, arg_meta.offset, arg_value.bytes, arg_size.lo)])

\* BindLocal with the size also written into the blob at the argument's offset.
BindLocal_WritesBlob(K, arg_index, arg_size, arg_value) ==
    IF arg_size = SizeT(0)
    THEN Outcome("return", "CL_INVALID_ARG_SIZE", K)
    ELSE IF arg_value.ptr # "null"
    THEN Outcome("return", "CL_INVALID_ARG_VALUE", K)
    ELSE Outcome("return", "CL_SUCCESS",
                 [K EXCEPT !.m_ArgMetadataToCompiler[arg_index].config =
                               [kind |-> "Local", size |-> ToClUint(arg_size)],
                           !.m_KernelArgsCbData =
                               WriteBytes(@, K.m_Dxil.metadata.args[arg_index].offset,
                                          LE32(ToClUint(arg_size)), 4)])

\* case Local.
BindLocal(K, arg_index, arg_size, arg_value) ==
    IF arg_size = SizeT(0)
    THEN Outcome("return", "CL_INVALID_ARG_SIZE", K)
    ELSE IF arg_value.ptr # "null"
    THEN Outcome("return", "CL_INVALID_ARG_VALUE", K)
    ELSE Outcome("return", "CL_SUCCESS",
                 [K EXCEPT !.m_ArgMetadataToCompiler[arg_index].config =
                               [kind |-> "Local", size |-> ToClUint(arg_size)]])

\* The switch over arg_info.address_qualifier, for the argument description
\* (arg_info, arg_meta) read at arg_index.
BindArg(K, arg_index, arg_info, arg_meta, arg_size, arg_value) ==
    LET imageType == MemObjectTypeFromName(arg_info.type_name)
    IN  CASE IsMemAddressSpace(arg_info.address_qualifier) ->
               IF arg_size # SizeT(SizeofClMem)
               THEN Outcome("return", "CL_INVALID_ARG_SIZE", K)
               ELSE IF imageType # "0"
               THEN BindImage(K, arg_info, arg_meta, HandleAt(arg_value), imageType)
               ELSE BindBuffer(K, arg_meta, HandleAt(arg_value))
          [] arg_info.address_qualifier = "Private" ->
               IF arg_info.type_name = "sampler_t"
               THEN BindSampler(K, arg_index, arg_meta, arg_size, arg_value)
               ELSE BindScalar(K, arg_meta, arg_size, arg_value)
          [] arg_info.address_qualifier = "Local" ->
               BindLocal(K, arg_index, arg_size, arg_value)
          [] OTHER -> Outcome("return", "CL_SUCCESS", K)

\* The test of arg_index against the argument count.
IndexRejected(arg_index, count) == arg_index > count

ArgRead(arg_info, arg_meta) == [wild |-> FALSE, arg_info |-> arg_info, arg_meta |-> arg_meta]

\* What args[arg_index] can yield. Within the vectors it is the argument's
\* description. One past their end (arg_index = size passes the test) the
\* read is out of bounds: the process dies, or the bytes found there are
\* taken for a description - of no known address space, or of a buffer
\* argument at slot 0 of the UAV table.
ArgsReadAt(K, arg_index) ==
    LET metadata == K.m_Dxil.metadata
    IN  IF arg_index < Size(metadata.args)
        THEN {ArgRead(metadata.program_kernel_info.args[arg_index], metadata.args[arg_index])}
        ELSE {[wild |-> TRUE, arg_info |-> ArgInfo("", "", "", FALSE, FALSE),
               arg_meta |-> ArgMeta(0, 0, ScalarProps)],
              ArgRead(ArgInfo("", "", "", FALSE, FALSE), ArgMeta(0, 0, ScalarProps))}
             \cup {ArgRead(ArgInfo("", "", "Global", FALSE, FALSE), ArgMeta(0, 8, MemoryProps(s))) :
                     s \in {t \in DOMAIN K.m_UAVs : t = 0 /\ Size(K.m_KernelArgsCbData) >= 8}}

\* Kernel::SetArg(arg_index, arg_size, arg_value) on the kernel object K:
\* what it can return, with the kernel object it leaves behind.
SetArgOutcomes(K, arg_index, arg_size, arg_value) ==
    IF IndexRejected(arg_index, Size(K.m_Dxil.metadata.args))
    THEN {Outcome("return", "CL_INVALID_ARG_INDEX", K)}
    ELSE {IF read.wild THEN Outcome("crash", "none", K)
          ELSE BindArg(K, arg_index, read.arg_info, read.arg_meta, arg_size, arg_value) :
             read \in ArgsReadAt(K, arg_index)}

\* clSetKernelArg(kernel, arg_index, arg_size, arg_value).
SetArg(k, arg_index, arg_size, arg_value) ==
    /\ ~crashed
    /\ kernels[k] # NoKernel
    /\ calls < MaxCalls
    /\ calls' = calls + 1
    /\ \E o \in SetArgOutcomes(kernels[k], arg_index, arg_size, arg_value) :
          /\ ret' = Returned("clSetKernelArg", o.code, k, "", 0, arg_index)
          /\ crashed' = (o.outcome = "crash")
          /\ kernels' = [kernels EXCEPT ![k] = o.K]
    /\ UNCHANGED <<buildData, liveKernels, refs, literals, out, pending>>

\* The argument sizes and values the application calls clSetKernelArg with.
ArgSizes == {SizeT(0), SizeT(2), SizeT(SizeofClMem)}

\* 2^32 + 16: a size above the range of cl_uint.
WideSize == [hi |-> 1, lo |-> 16]

\* The sizes tried on the argument at arg_index: a local argument is also
\* given a size above 32 bits.
ArgSizesAt(K, arg_index) ==
    IF /\ arg_index \in DOMAIN K.m_Dxil.metadata.args
       /\ K.m_Dxil.metadata.args[arg_index].properties.kind = "Local"
    THEN ArgSizes \cup {WideSize}
    ELSE ArgSizes

ArgIndexes == 0..3

SomeBytes(n) ==
    {[i \in 0..(n - 1) |-> 255], [i \in 0..(n - 1) |-> IF i = 0 THEN 7 ELSE 255]}

\* The values of the type the argument at arg_index has; for an index
\* outside the arguments, a null pointer and a buffer.
ArgValues(K, arg_index, arg_size) ==
    LET metadata == K.m_Dxil.metadata
        kind == metadata.args[arg_index].properties.kind
    IN  IF arg_index >= Size(metadata.args)
        THEN {PtrNull, PtrToHandle(Buf1)}
        ELSE CASE kind \in {"Image", "Memory"} ->
                    {PtrNull} \cup {PtrToHandle(h) : h \in {Null} \cup Resources}
               [] kind = "Sampler" ->
                    {PtrNull} \cup {PtrToHandle(h) : h \in {Null} \cup Samplers}
               [] kind = "Scalar" ->
                    {PtrNull} \cup {PtrToBytes(b) : b \in SomeBytes(arg_size.lo)}
               [] kind = "Local" ->
                    {PtrNull} \cup {PtrToBytes(b) : b \in SomeBytes(arg_size.lo)}

----------------------------------------------------------------------------
(* Cloning (clCloneKernel, Kernel::Kernel(Kernel const&)). *)

\* CopyOfKernel with the argument bytes left as the constructor makes them.
CopyOfKernel_FreshArgs(other) ==
    [alive |-> TRUE,
     m_Dxil |-> other.m_Dxil,
     m_Name |-> other.m_Name,
     m_ShaderDecls |-> other.m_ShaderDecls,
     m_UAVs |-> other.m_UAVs,
     m_SRVs |-> other.m_SRVs,
     m_Samplers |-> other.m_Samplers,
     m_ArgMetadataToCompiler |-> other.m_ArgMetadataToCompiler,
     m_KernelArgsCbData |-> [b \in DOMAIN other.m_KernelArgsCbData |-> 0],
     m_ConstSamplers |-> other.m_ConstSamplers,
     m_InlineConsts |-> other.m_InlineConsts]

\* The copy of the kernel object other: every member is copied; the literal
\* samplers and inline constants are shared, not duplicated.
CopyOfKernel(other) ==
    [alive |-> TRUE,
     m_Dxil |-> other.m_Dxil,
     m_Name |-> other.m_Name,
     m_ShaderDecls |-> other.m_ShaderDecls,
     m_UAVs |-> other.m_UAVs,
     m_SRVs |-> other.m_SRVs,
     m_Samplers |-> other.m_Samplers,
     m_ArgMetadataToCompiler |-> other.m_ArgMetadataToCompiler,
     m_KernelArgsCbData |-> other.m_KernelArgsCbData,
     m_ConstSamplers |-> other.m_ConstSamplers,
     m_InlineConsts |-> other.m_InlineConsts]

\* clCloneKernel(source_kernel, &errcode); an allocation may throw std::bad_alloc.
CloneKernel(source_kernel) ==
    /\ ~crashed
    /\ kernels[source_kernel] # NoKernel
    /\ calls < MaxCalls
    /\ \E thrown \in {"none", "bad_alloc"} :
          IF thrown # "none"
          THEN /\ ret' = Returned("clCloneKernel", CaughtCode(thrown), 0, "", source_kernel, 0)
               /\ UNCHANGED <<kernels, liveKernels, refs, literals, out, calls>>
          ELSE /\ kernels' = [kernels EXCEPT ![FreeKernelId] = CopyOfKernel(kernels[source_kernel])]
               /\ liveKernels' = KernelCreated(liveKernels)
               /\ refs' = [refs EXCEPT ![FreeKernelId] = 1]
               /\ literals' = SharedByCopy(literals, kernels[source_kernel])
               /\ UNCHANGED out
               /\ ret' = Returned("clCloneKernel", "CL_SUCCESS", FreeKernelId, "", source_kernel, 0)
               /\ calls' = calls + 1
    /\ UNCHANGED <<buildData, pending, crashed>>

----------------------------------------------------------------------------
(* Reference counting (clRetainKernel, clReleaseKernel, Kernel::~Kernel). *)

\* The destructor without its notification.
Destructor_Silent(count) == count

\* Kernel::~Kernel on the program's count of live kernels.
Destructor(count) == KernelFreed(count)

\* clRetainKernel(kernel); the handle 0 is nullptr.
RetainKernel(kernel) ==
    /\ ~crashed
    /\ calls < MaxCalls
    /\ kernel # 0 => kernels[kernel] # NoKernel
    /\ calls' = calls + 1
    /\ IF kernel = 0
       THEN /\ ret' = Returned("clRetainKernel", "CL_INVALID_KERNEL", 0, "", 0, 0)
            /\ UNCHANGED refs
       ELSE /\ ret' = Returned("clRetainKernel", "CL_SUCCESS", kernel, "", 0, 0)
            /\ refs' = [refs EXCEPT ![kernel] = @ + 1]
    /\ UNCHANGED <<buildData, kernels, liveKernels, literals, out, pending, crashed>>

\* clReleaseKernel(kernel): the object is deleted when its last reference
\* goes.
ReleaseKernel(kernel) ==
    /\ ~crashed
    /\ calls < MaxCalls
    /\ kernel # 0 => kernels[kernel] # NoKernel
    /\ calls' = calls + 1
    /\ IF kernel = 0
       THEN /\ ret' = Returned("clReleaseKernel", "CL_INVALID_KERNEL", 0, "", 0, 0)
            /\ UNCHANGED <<kernels, liveKernels, refs, literals, out>>
       ELSE /\ ret' = Returned("clReleaseKernel", "CL_SUCCESS", kernel, "", 0, 0)
            /\ refs' = [refs EXCEPT ![kernel] = @ - 1]
            /\ IF refs[kernel] = 1
               THEN /\ kernels' = [kernels EXCEPT ![kernel] = NoKernel]
                    /\ liveKernels' = Destructor(liveKernels)
                    /\ literals' = MembersDestroyed(literals, kernels[kernel])
                    /\ UNCHANGED out
               ELSE UNCHANGED <<kernels, liveKernels, literals, out>>
    /\ UNCHANGED <<buildData, pending, crashed>>

----------------------------------------------------------------------------
(* clCreateKernel on one thread while another rebuilds the program.  The    *)
(* call is two steps: the scan under program.m_Lock, and, after the lock    *)
(* is released, the construction from the pointer the scan selected.        *)

\* The scan, to the end of the lock's scope.
ResolveKernel(kernel_name) ==
    /\ ~crashed
    /\ calls < MaxCalls
    /\ pending = NoPending
    /\ LET r == ScanDevices(buildData, kernel_name, 1, 0, 0, 0)
       IN  CASE r.outcome = "crash" ->
                  /\ crashed' = TRUE
                  /\ ret' = Returned("clCreateKernel", "none", 0, kernel_name, 0, 0)
                  /\ UNCHANGED pending
             [] r.outcome = "error" ->
                  /\ ret' = Returned("clCreateKernel", r.code, 0, kernel_name, 0, 0)
                  /\ UNCHANGED <<pending, crashed>>
             [] r.outcome = "resolved" ->
                  /\ pending' = [selected |-> TRUE, name |-> kernel_name, kernel |-> r.kernel,
                                 validated |-> DxilOf(buildData, r.kernel, kernel_name).metadata,
                                 dangling |-> FALSE]
                  /\ UNCHANGED <<ret, crashed>>
    /\ UNCHANGED <<buildData, kernels, liveKernels, refs, literals, out, calls>>

\* The artifacts the program holds for the kernel name.
ArtifactsNow(name) ==
    {buildData[d].m_Kernels[name].m_GenericDxil :
        d \in {e \in Devices : /\ name \in DOMAIN buildData[e].m_Kernels
                                /\ buildData[e].m_Kernels[name].m_GenericDxil # NullDxil}}

\* What *kernel yields when the constructor runs. The pointer is a raw one:
\* once a rebuild has destroyed the object it is dangling, and the read
\* finds the old bytes, the bytes of an artifact built since, or faults.
DxilsReadAt(selected) ==
    IF selected.dangling
    THEN {[fault |-> FALSE, Dxil |-> [device |-> selected.kernel, metadata |-> m]] :
             m \in {selected.validated} \cup ArtifactsNow(selected.name)}
         \cup {[fault |-> TRUE, Dxil |-> [device |-> selected.kernel, metadata |-> selected.validated]]}
    ELSE {[fault |-> FALSE, Dxil |-> [device |-> selected.kernel, metadata |-> selected.validated]]}

\* The try block, run outside the lock.
ConstructKernel ==
    /\ ~crashed
    /\ pending # NoPending
    /\ pending' = NoPending
    /\ \E read \in DxilsReadAt(pending) :
          IF read.fault
          THEN /\ crashed' = TRUE
               /\ ret' = Returned("clCreateKernel", "none", 0, pending.name, 0, 0)
               /\ UNCHANGED <<kernels, liveKernels, refs, literals, out, calls>>
          ELSE /\ Construct(pending.name, read.Dxil)
               /\ UNCHANGED crashed
    /\ UNCHANGED buildData

\* A build of the program on another thread, under program.m_Lock: refused
\* while the program counts live kernels; otherwise the build data of every
\* device is replaced and the artifacts of the previous build are destroyed.
Rebuild(BuildData) ==
    /\ ~crashed
    /\ IF liveKernels > 0
       THEN /\ ret' = Returned("clBuildProgram", "CL_INVALID_OPERATION", 0, "", 0, 0)
            /\ UNCHANGED <<buildData, pending>>
       ELSE /\ ret' = Returned("clBuildProgram", "CL_SUCCESS", 0, "", 0, 0)
            /\ buildData' = BuildData
            /\ pending' = IF pending = NoPending THEN pending
                          ELSE [pending EXCEPT !.dangling = TRUE]
    /\ UNCHANGED <<kernels, liveKernels, refs, literals, out, calls, crashed>>

\* What a build of blit can leave behind on the devices.
RebuildBuilds ==
    [Devices -> {NoBuild, ExecutableBuild("blit", NullDxil),
                 ExecutableBuild("blit", BlitMeta), ExecutableBuild("blit", BlitTwoArgs)}]

----------------------------------------------------------------------------
(* Creation of every kernel of the program (clCreateKernelsInProgram). *)

\* The kernel objects with their counts, as one value the loop hands on.
Objects(objects, live, counts, lit) ==
    [kernels |-> objects, liveKernels |-> live, refs |-> counts, literals |-> lit]

Attempt(outcome, code, kernel, st) ==
    [outcome |-> outcome, code |-> code, kernel |-> kernel, st |-> st]

\* clCreateKernel(program_, name, &error) called inside the loop, from the
\* objects st: what it can report, and the objects it leaves.
CreateKernelIn(st, bd, kernel_name) ==
    LET r == ScanDevices(bd, kernel_name, 1, 0, 0, 0)
    IN  CASE r.outcome = "crash" -> {Attempt("crash", "none", 0, st)}
          [] r.outcome = "error" -> {Attempt("error", r.code, 0, st)}
          [] r.outcome = "resolved" ->
               LET Dxil == DxilOf(bd, r.kernel, kernel_name)
                   k == FreeIdIn(st.kernels, st.literals)
               IN  {IF thrown # "none"
                    THEN Attempt("error", CaughtCode(thrown), 0, st)
                    ELSE Attempt("created", "CL_SUCCESS", k,
                                 Objects([st.kernels EXCEPT ![k] =
                                             NewKernel(k, kernel_name, Dxil, failed)],
                                         KernelCreated(st.liveKernels),
                                         [st.refs EXCEPT ![k] = 1],
                                         CreatedWith(st.literals,
                                                     NewKernel(k, kernel_name, Dxil, failed)))) :
                       thrown \in Throwables(Dxil.metadata),
                       failed \in SUBSET DOMAIN Dxil.metadata.consts}

\* The keys of temp: the kernel names of the devices with a successful build
\* of an executable.
NamesInProgram(bd) ==
    UNION {DOMAIN bd[d].m_Kernels : d \in {e \in Devices : HasProgram(bd[e])}}

\* The kernel names in the order of std::map<std::string, ...>.
NameOrder == <<"blit", "filter", "saxpy">>

IsKeyOfTemp(bd, name) == name \in NamesInProgram(bd)

\* The destructor of temp on an early return: each kernel attached so far
\* loses its only reference and is destroyed.
RECURSIVE ReleaseAttached(_, _)
ReleaseAttached(st, attached) ==
    IF attached = <<>> THEN st
    ELSE LET k == Head(attached)
         IN  ReleaseAttached(
                Objects([st.kernels EXCEPT ![k] = NoKernel],
                        Destructor(st.liveKernels),
                        [st.refs EXCEPT ![k] = 0],
                        MembersDestroyed(st.literals, st.kernels[k])),
                Tail(attached))

\* The loop that attaches a new kernel to each key of temp, from the key
\* names[1] on: it ends at the first clCreateKernel that reports an error.
RECURSIVE AttachKernels(_, _, _, _)
AttachKernels(st, bd, names, attached) ==
    IF names = <<>> THEN {Attempt("created", "CL_SUCCESS", attached, st)}
    ELSE UNION {IF a.outcome = "created"
                THEN AttachKernels(a.st, bd, Tail(names), Append(attached, a.kernel))
                ELSE IF a.outcome = "error"
                THEN {Attempt("error", a.code, <<>>, ReleaseAttached(a.st, attached))}
                ELSE {Attempt("crash", "none", attached, a.st)} :
                   a \in CreateKernelIn(st, bd, Head(names))}

\* clCreateKernelsInProgram(program_, num_kernels, kernels, num_kernels_ret)
\* with an array of num_kernels entries; the count written through
\* num_kernels_ret is not part of the state.
CreateKernelsInProgram(num_kernels) ==
    LET temp == SelectSeq(NameOrder, LAMBDA name : IsKeyOfTemp(buildData, name))
        untouched == [j \in 0..(num_kernels - 1) |-> 0]
        taken == IF temp = <<>> THEN 1 ELSE Len(temp)
    IN  /\ ~crashed
        /\ calls + taken <= MaxCalls
        /\ calls' = calls + taken
        /\ IF temp = <<>>
           THEN /\ ret' = Returned("clCreateKernelsInProgram", "CL_INVALID_PROGRAM_EXECUTABLE",
                                   0, "", 0, 0)
                /\ out' = untouched
                /\ UNCHANGED <<kernels, liveKernels, refs, literals, crashed>>
           ELSE IF num_kernels # 0 /\ num_kernels < Len(temp)
           THEN /\ ret' = Returned("clCreateKernelsInProgram", "CL_INVALID_VALUE", 0, "", 0, 0)
                /\ out' = untouched
                /\ UNCHANGED <<kernels, liveKernels, refs, literals, crashed>>
           ELSE IF num_kernels = 0
           THEN /\ ret' = Returned("clCreateKernelsInProgram", "CL_SUCCESS", 0, "", 0, 0)
                /\ out' = untouched
                /\ UNCHANGED <<kernels, liveKernels, refs, literals, crashed>>
           ELSE \E a \in AttachKernels(Objects(kernels, liveKernels, refs, literals),
                                       buildData, temp, <<>>) :
                   /\ ret' = Returned("clCreateKernelsInProgram", a.code, 0, "", 0, 0)
                   /\ crashed' = (a.outcome = "crash")
                   /\ kernels' = a.st.kernels
                   /\ liveKernels' = a.st.liveKernels
                   /\ refs' = a.st.refs
                   /\ literals' = a.st.literals
                   /\ out' = IF a.outcome = "created"
                             THEN [j \in 0..(num_kernels - 1) |->
                                     IF j < Len(a.kernel) THEN a.kernel[j + 1] ELSE 0]
                             ELSE untouched
        /\ UNCHANGED <<buildData, pending>>

----------------------------------------------------------------------------

(* Queries (clGetKernelWorkGroupInfo). *)

\* The loop of CL_KERNEL_LOCAL_MEM_SIZE over the arguments below n: each
\* __local pointer argument takes its 4-byte placeholder out of size and puts
\* its recorded size in.
RECURSIVE LocalMemSizeUpTo(_, _, _)
LocalMemSizeUpTo(K, size, n) ==
    IF n = 0 THEN size
    ELSE LET i == n - 1
             before == LocalMemSizeUpTo(K, size, i)
         IN  IF K.m_Dxil.metadata.program_kernel_info.args[i].address_qualifier = "Local"
             THEN before - 4 + K.m_ArgMetadataToCompiler[i].config.size
             ELSE before

\* The value clGetKernelWorkGroupInfo returns for CL_KERNEL_LOCAL_MEM_SIZE.
LocalMemSize(K) ==
    SizeT(LocalMemSizeUpTo(K, K.m_Dxil.metadata.local_mem_size, Size(K.m_Dxil.metadata.args)))

----------------------------------------------------------------------------
(* Specifications. *)

NoCall == Returned("none", "none", 0, "", 0, 0)

\* Kernel creation over every combination of device builds.
InitResolve ==
    /\ buildData \in [Devices -> DeviceBuilds]
    /\ kernels = [k \in KernelIds |-> NoKernel]
    /\ liveKernels = 0
    /\ refs = [k \in KernelIds |-> 0]
    /\ literals = EmptyVec
    /\ out = EmptyVec
    /\ pending = NoPending
    /\ ret = NoCall
    /\ calls = 0
    /\ crashed = FALSE

NextResolve == \E kernel_name \in KernelNames : CreateKernel(kernel_name)

SpecResolve == InitResolve /\ [][NextResolve]_vars

\* The programs binding and cloning are explored on: one of the three
\* kernels, built for the first device.
BoundPrograms ==
    {[d \in Devices |-> IF d = 1 THEN ExecutableBuild(m.program_kernel_info.name, m) ELSE NoBuild] :
        m \in {BlitMeta, SaxpyMeta, FilterMeta}}

InitBind ==
    /\ buildData \in BoundPrograms
    /\ kernels = [k \in KernelIds |-> NoKernel]
    /\ liveKernels = 0
    /\ refs = [k \in KernelIds |-> 0]
    /\ literals = EmptyVec
    /\ out = EmptyVec
    /\ pending = NoPending
    /\ ret = NoCall
    /\ calls = 0
    /\ crashed = FALSE

NextBind ==
    \/ \E kernel_name \in KernelNames : CreateKernel(kernel_name)
    \/ \E k \in KernelIds, arg_index \in ArgIndexes :
          /\ kernels[k] # NoKernel
          /\ \E arg_size \in ArgSizesAt(kernels[k], arg_index) :
                \E arg_value \in ArgValues(kernels[k], arg_index, arg_size) :
                   SetArg(k, arg_index, arg_size, arg_value)
    \/ \E source_kernel \in KernelIds : CloneKernel(source_kernel)

SpecBind == InitBind /\ [][NextBind]_vars

\* Creation, cloning, retaining and releasing on one program.
NextLife ==
    \/ \E kernel_name \in KernelNames : CreateKernel(kernel_name)
    \/ \E source_kernel \in KernelIds : CloneKernel(source_kernel)
    \/ \E kernel \in {0} \cup KernelIds : RetainKernel(kernel)
    \/ \E kernel \in {0} \cup KernelIds : ReleaseKernel(kernel)

SpecLife == InitBind /\ [][NextLife]_vars

\* Constant-buffer indexes the compiler's metadata can carry, the largest
\* cl_uint among them.
CbIndexes ==
    {ClUint(0), ClUint(1), ClUint(65535), ClUint(65536), [hi |-> 32768, lo |-> 0],
     [hi |-> 65535, lo |-> 65534], ClUintMax}

WithCbIndexes(metadata, KernelArgCBIndex, WorkPropertiesCBIndex) ==
    [metadata EXCEPT !.kernel_inputs_cbv_id = KernelArgCBIndex,
                     !.work_properties_cbv_id = WorkPropertiesCBIndex]

\* Kernel creation over programs whose blit carries each pair of indexes.
InitDecls ==
    /\ \E KernelArgCBIndex \in CbIndexes, WorkPropertiesCBIndex \in CbIndexes :
          buildData = [d \in Devices |->
                          ExecutableBuild("blit",
                                          WithCbIndexes(BlitMeta, KernelArgCBIndex,
                                                        WorkPropertiesCBIndex))]
    /\ kernels = [k \in KernelIds |-> NoKernel]
    /\ liveKernels = 0
    /\ refs = [k \in KernelIds |-> 0]
    /\ literals = EmptyVec
    /\ out = EmptyVec
    /\ pending = NoPending
    /\ ret = NoCall
    /\ calls = 0
    /\ crashed = FALSE

NextDecls == \E kernel_name \in KernelNames : CreateKernel(kernel_name)

SpecDecls == InitDecls /\ [][NextDecls]_vars

\* Kernel creation and argument binding alone.
NextSetArg ==
    \/ \E kernel_name \in KernelNames : CreateKernel(kernel_name)
    \/ \E k \in KernelIds, arg_index \in ArgIndexes :
          /\ kernels[k] # NoKernel
          /\ \E arg_size \in ArgSizesAt(kernels[k], arg_index) :
                \E arg_value \in ArgValues(kernels[k], arg_index, arg_size) :
                   SetArg(k, arg_index, arg_size, arg_value)

SpecSetArg == InitBind /\ [][NextSetArg]_vars

\* The array sizes clCreateKernelsInProgram is called with.
ArraySizes == 0..3

\* What the build of one device can have left behind for a program with the
\* kernels blit and filter.
CreateAllBuilds ==
    {NoBuild, LibraryBuild, ExecutableBuild("filter", FilterMeta),
     ExecutableBuild("blit", BlitMeta), ExecutableBuild("blit", BlitTwoArgs),
     ExecutableBuild("blit", NullDxil)}

\* Creation of all kernels and of single kernels, over every combination of
\* these builds.
InitCreateAll ==
    /\ buildData \in [Devices -> CreateAllBuilds]
    /\ kernels = [k \in KernelIds |-> NoKernel]
    /\ liveKernels = 0
    /\ refs = [k \in KernelIds |-> 0]
    /\ literals = EmptyVec
    /\ out = EmptyVec
    /\ pending = NoPending
    /\ ret = NoCall
    /\ calls = 0
    /\ crashed = FALSE

NextCreateAll ==
    \/ \E num_kernels \in ArraySizes : CreateKernelsInProgram(num_kernels)
    \/ \E kernel_name \in KernelNames : CreateKernel(kernel_name)

SpecCreateAll == InitCreateAll /\ [][NextCreateAll]_vars

\* Kernel creation and release on one thread, rebuilds on another.
InitRebuild ==
    /\ buildData \in RebuildBuilds
    /\ kernels = [k \in KernelIds |-> NoKernel]
    /\ liveKernels = 0
    /\ refs = [k \in KernelIds |-> 0]
    /\ literals = EmptyVec
    /\ out = EmptyVec
    /\ pending = NoPending
    /\ ret = NoCall
    /\ calls = 0
    /\ crashed = FALSE

NextRebuild ==
    \/ \E kernel_name \in KernelNames : ResolveKernel(kernel_name)
    \/ ConstructKernel
    \/ \E BuildData \in RebuildBuilds : Rebuild(BuildData)
    \/ \E kernel \in KernelIds : ReleaseKernel(kernel)

SpecRebuild == InitRebuild /\ [][NextRebuild]_vars

----------------------------------------------------------------------------
\* Properties.

AliveKernels == {k \in KernelIds : kernels[k] # NoKernel}

ArgCount(K) == Size(K.m_Dxil.metadata.args)

IsError(code) == code \notin {"CL_SUCCESS", "none"}

\* C1: a clSetKernelArg call whose argument index is not below the kernel's
\* argument count (the count itself included) returns CL_INVALID_ARG_INDEX,
\* leaves every kernel object as it was and does not bring the process down.
C1_IndexOutOfRange ==
    [][(ret'.op = "clSetKernelArg"
          /\ ret'.arg_index >= ArgCount(kernels[ret'.kernel]))
       => /\ ret'.code = "CL_INVALID_ARG_INDEX"
          /\ kernels' = kernels
          /\ ~crashed']_vars

\* C2: a clSetKernelArg call that returns an error leaves the UAV, SRV and
\* sampler tables, the constant-buffer bytes and the per-argument compiler
\* configuration of every kernel object as they were before the call.
C2_ErrorsLeaveStateUntouched ==
    [][(ret'.op = "clSetKernelArg" /\ IsError(ret'.code))
       => kernels' = kernels]_vars

\* An image argument already bound, and a later call on the same kernel
\* that was refused.
C2_Witness ==
    /\ ret.op = "clSetKernelArg"
    /\ ret.code = "CL_INVALID_ARG_VALUE"
    /\ kernels[ret.kernel].m_Name = "blit"
    /\ kernels[ret.kernel].m_SRVs[0] = Img2dRO
    /\ kernels[ret.kernel].m_UAVs[2] = Img2dWO

\* The devices of the program with a successful build of an executable,
\* those of them whose binary exposes the kernel name, and those of the
\* latter whose kernel has a compiled artifact.
DevicesWithProgram ==
    {d \in Devices : /\ buildData[d].present
                     /\ buildData[d].m_BuildStatus = "CL_BUILD_SUCCESS"
                     /\ buildData[d].m_BinaryType = "CL_PROGRAM_BINARY_TYPE_EXECUTABLE"}

DevicesWithKernel(name) ==
    {d \in DevicesWithProgram : name \in DOMAIN buildData[d].m_Kernels}

DevicesWithArtifact(name) ==
    {d \in DevicesWithKernel(name) : buildData[d].m_Kernels[name].m_GenericDxil # NullDxil}

\* The ordered argument signature of the kernel on device d.
SignatureOf(d, name) ==
    LET args == buildData[d].m_Kernels[name].m_GenericDxil.program_kernel_info.args
    IN  [i \in DOMAIN args |->
           <<args[i].type_name, args[i].name, args[i].address_qualifier,
             args[i].readable, args[i].writable,
             args[i].is_const, args[i].is_restrict, args[i].is_volatile>>]

SignaturesDiffer(name) ==
    \E d1, d2 \in DevicesWithArtifact(name) : SignatureOf(d1, name) # SignatureOf(d2, name)

FirstOf(S) == CHOOSE d \in S : \A e \in S : d <= e
LastOf(S) == CHOOSE d \in S : \A e \in S : e <= d

ResourceExhaustion == {"CL_OUT_OF_RESOURCES", "CL_OUT_OF_HOST_MEMORY"}

\* C3: when some device has an executable exposing the kernel name,
\* clCreateKernel comes back with CL_INVALID_KERNEL_DEFINITION and no kernel
\* if two of those devices differ in argument count or in a signature field
\* of an argument, and with one new kernel of that name if none do (unless
\* building the kernel object ran out of resources); the other devices of
\* the program have no say.
C3_SignatureAgreement ==
    (ret.op = "clCreateKernel" /\ DevicesWithKernel(ret.name) # {})
    => /\ ~crashed
       /\ IF SignaturesDiffer(ret.name)
          THEN ret.code = "CL_INVALID_KERNEL_DEFINITION" /\ ret.kernel = 0
          ELSE \/ /\ ret.code = "CL_SUCCESS"
                  /\ ret.kernel \in AliveKernels
                  /\ kernels[ret.kernel].m_Name = ret.name
               \/ ret.code \in ResourceExhaustion /\ ret.kernel = 0

C5_NoExecutableOrNoSuchName ==
    /\ [](ret.op = "clCreateKernel"
          => /\ ret.code = "CL_INVALID_PROGRAM_EXECUTABLE" <=> DevicesWithProgram = {}
             /\ ret.code = "CL_INVALID_KERNEL_NAME"
                  <=> (DevicesWithProgram # {} /\ DevicesWithKernel(ret.name) = {})
             /\ ret.code \in {"CL_INVALID_PROGRAM_EXECUTABLE", "CL_INVALID_KERNEL_NAME"}
                  => ret.kernel = 0)
    /\ [][(/\ ret'.op = "clCreateKernel"
           /\ ret'.code \in {"CL_INVALID_PROGRAM_EXECUTABLE", "CL_INVALID_KERNEL_NAME"})
          => (kernels' = kernels /\ liveKernels' = liveKernels)]_vars

\* Kernels exist, and a later creation by a name no executable exposes has
\* been refused; a device of the program has no executable at all.
C5_Witness ==
    /\ ret.op = "clCreateKernel"
    /\ ret.code = "CL_INVALID_KERNEL_NAME"
    /\ liveKernels > 0
    /\ DevicesWithProgram # Devices

\* The plain-buffer and the image arguments of a kernel object.
BufferArgs(K) ==
    {i \in DOMAIN K.m_Dxil.metadata.args :
        /\ K.m_Dxil.metadata.program_kernel_info.args[i].address_qualifier \in {"Global", "Constant"}
        /\ K.m_Dxil.metadata.args[i].properties.kind = "Memory"}

ImageArgs(K) ==
    {i \in DOMAIN K.m_Dxil.metadata.args :
        /\ K.m_Dxil.metadata.program_kernel_info.args[i].address_qualifier \in {"Global", "Constant"}
        /\ K.m_Dxil.metadata.args[i].properties.kind = "Image"}

IsPlainBuffer(h) == h # Null /\ ResourceOf(h).image_type = "CL_MEM_OBJECT_BUFFER"

\* C6: setting a plain-buffer argument with slot id S, in any state of the
\* kernel: a null value (or null handle) succeeds, leaves the all-ones
\* 64-bit pattern at the argument's offset and clears UAV slot S; a plain
\* buffer succeeds, leaves a 64-bit value with lower half 0 and upper half S
\* there and puts the buffer in UAV slot S; any other memory object is
\* refused with CL_INVALID_ARG_VALUE.
C6_BufferSentinel ==
    \A k \in AliveKernels :
      LET K == kernels[k]
      IN  \A i \in BufferArgs(K) :
            \A arg_value \in ArgValues(K, i, SizeT(SizeofClMem)) :
              \A o \in SetArgOutcomes(K, i, SizeT(SizeofClMem), arg_value) :
                LET S == K.m_Dxil.metadata.args[i].properties.buffer_id
                    written == ReadBytes(o.K.m_KernelArgsCbData,
                                         K.m_Dxil.metadata.args[i].offset, 8)
                    r == HandleAt(arg_value)
                IN  /\ o.outcome = "return"
                    /\ IF r = Null
                       THEN /\ o.code = "CL_SUCCESS"
                            /\ \A b \in 0..7 : written[b] = 255
                            /\ o.K.m_UAVs[S] = Null
                       ELSE IF IsPlainBuffer(r)
                       THEN /\ o.code = "CL_SUCCESS"
                            /\ \A b \in 0..3 : written[b] = 0
                            /\ \A b \in 0..3 : written[4 + b] = (S \div Pow256(b)) % 256
                            /\ o.K.m_UAVs[S] = r
                       ELSE o.code = "CL_INVALID_ARG_VALUE"

\* A buffer has been bound to saxpy's x (slot 1, offset 0).
C6_Witness ==
    /\ ret.op = "clSetKernelArg"
    /\ ret.code = "CL_SUCCESS"
    /\ ret.arg_index = 0
    /\ kernels[ret.kernel].m_Name = "saxpy"
    /\ kernels[ret.kernel].m_UAVs[1] = Buf1
    /\ ReadBytes(kernels[ret.kernel].m_KernelArgsCbData, 0, 8)
         = [b \in 0..7 |-> IF b = 4 THEN 1 ELSE 0]

\* The image kind an image type name stands for.
ExpectedImageKind(type_name) ==
    CASE type_name = "image1d_t" -> "CL_MEM_OBJECT_IMAGE1D"
      [] type_name = "image1d_array_t" -> "CL_MEM_OBJECT_IMAGE1D_ARRAY"
      [] type_name = "image1d_buffer_t" -> "CL_MEM_OBJECT_IMAGE1D_BUFFER"
      [] type_name = "image2d_t" -> "CL_MEM_OBJECT_IMAGE2D"
      [] type_name = "image2d_array_t" -> "CL_MEM_OBJECT_IMAGE2D_ARRAY"
      [] type_name = "image3d_t" -> "CL_MEM_OBJECT_IMAGE3D"

FlagsCompatible(arg_info, r) ==
    IF arg_info.writable
    THEN /\ "CL_MEM_READ_ONLY" \notin ResourceOf(r).m_Flags
         /\ arg_info.readable => "CL_MEM_WRITE_ONLY" \notin ResourceOf(r).m_Flags
    ELSE "CL_MEM_WRITE_ONLY" \notin ResourceOf(r).m_Flags

\* C7: setting an image argument with a value of sizeof(cl_mem) bytes, in
\* any state of the kernel, succeeds exactly when the value is null or a
\* memory object of the argument's image kind with compatible access flags;
\* every refusal is CL_INVALID_ARG_VALUE and leaves the kernel object as it
\* was.
C7_ImageAcceptance ==
    \A k \in AliveKernels :
      LET K == kernels[k]
      IN  \A i \in ImageArgs(K) :
            \A arg_value \in ArgValues(K, i, SizeT(SizeofClMem)) :
              \A o \in SetArgOutcomes(K, i, SizeT(SizeofClMem), arg_value) :
                LET arg_info == K.m_Dxil.metadata.program_kernel_info.args[i]
                    r == HandleAt(arg_value)
                    accepted ==
                        \/ r = Null
                        \/ /\ ResourceOf(r).image_type = ExpectedImageKind(arg_info.type_name)
                           /\ FlagsCompatible(arg_info, r)
                IN  /\ o.outcome = "return"
                    /\ o.code = "CL_SUCCESS" <=> accepted
                    /\ ~accepted => (o.code = "CL_INVALID_ARG_VALUE" /\ o.K = K)

\* blit's dst (read-write, UAV slots 0 and 1) is bound, and a write-only
\* image has since been refused for it.
C7_Witness ==
    /\ ret.op = "clSetKernelArg"
    /\ ret.code = "CL_INVALID_ARG_VALUE"
    /\ ret.arg_index = 1
    /\ kernels[ret.kernel].m_Name = "blit"
    /\ kernels[ret.kernel].m_UAVs[0] = Img2dRW
    /\ kernels[ret.kernel].m_UAVs[1] = Img2dRW

\* The UAV, SRV and sampler tables, the argument bytes and the compiler
\* configuration of a kernel object.
BindingState(K) ==
    <<K.m_UAVs, K.m_SRVs, K.m_Samplers, K.m_KernelArgsCbData, K.m_ArgMetadataToCompiler>>

\* C8: a successful clCloneKernel gives the clone the binding state of
\* the source, element by element, and touches no other kernel object; a
\* clSetKernelArg changes no kernel object but the one it is called on, so
\* source and clone evolve apart.
C8_CloneIndependence ==
    [][/\ (ret'.op = "clCloneKernel" /\ ret'.code = "CL_SUCCESS")
          => /\ BindingState(kernels'[ret'.kernel]) = BindingState(kernels[ret'.source_kernel])
             /\ \A j \in KernelIds \ {ret'.kernel} : kernels'[j] = kernels[j]
       /\ ret'.op = "clSetKernelArg"
          => \A j \in KernelIds \ {ret'.kernel} : kernels'[j] = kernels[j]]_vars

\* Kernel 2 is a clone of the saxpy kernel 1 (it shares 1's literal
\* buffer); since the clone, x was set on 2 and then n on 1.
C8_Witness ==
    /\ ret.op = "clSetKernelArg"
    /\ ret.code = "CL_SUCCESS"
    /\ ret.kernel = 1
    /\ 2 \in AliveKernels
    /\ kernels[1].m_Name = "saxpy"
    /\ kernels[2].m_InlineConsts[0] = InlineConstObj(1, 0)
    /\ kernels[2].m_UAVs[1] = Buf1
    /\ kernels[1].m_UAVs[1] = Null
    /\ kernels[1].m_KernelArgsCbData[8] # 0
    /\ kernels[2].m_KernelArgsCbData[8] = 0

\* C9: every kernel object holds, for each literal constant blob of its
\* metadata, a buffer of its own in the declared UAV slot and, for each
\* literal sampler, a sampler of its own in the declared sampler slot - as
\* many as declared, from construction on and after any clSetKernelArg.
C9_LiteralsStayInPlace ==
    \A k \in AliveKernels :
      LET K == kernels[k]
          metadata == K.m_Dxil.metadata
      IN  /\ DOMAIN K.m_InlineConsts = DOMAIN metadata.consts
          /\ DOMAIN K.m_ConstSamplers = DOMAIN metadata.constSamplers
          /\ \A j \in DOMAIN metadata.consts :
                /\ K.m_InlineConsts[j].tag = "inlineConst"
                /\ K.m_UAVs[metadata.consts[j].uav_id] = K.m_InlineConsts[j]
          /\ \A j \in DOMAIN metadata.constSamplers :
                /\ K.m_ConstSamplers[j].tag = "constSampler"
                /\ K.m_Samplers[metadata.constSamplers[j].sampler_id] = K.m_ConstSamplers[j]

\* C10: a clCreateKernel that fails with a resource-exhaustion error returns
\* no kernel, and one that succeeds returns a kernel with every literal
\* sampler and every literal constant buffer created and in its slot.
C10_AllOrNothing ==
    ret.op = "clCreateKernel"
    => /\ ret.code \in ResourceExhaustion => ret.kernel = 0
       /\ ret.code = "CL_SUCCESS"
          => LET K == kernels[ret.kernel]
                 metadata == K.m_Dxil.metadata
             IN  /\ \A j \in DOMAIN metadata.consts :
                       /\ K.m_InlineConsts[j] # Null
                       /\ K.m_UAVs[metadata.consts[j].uav_id] # Null
                 /\ \A j \in DOMAIN metadata.constSamplers :
                       /\ K.m_ConstSamplers[j] # Null
                       /\ K.m_Samplers[metadata.constSamplers[j].sampler_id] # Null

\* C11: the program's count of live kernels is the number of kernel objects
\* constructed and not destroyed, and an object exists exactly while its
\* reference count is above zero: a successful clCreateKernel or
\* clCloneKernel adds one object and notifies one increment, a failed one
\* does neither, clRetainKernel changes neither, and clReleaseKernel
\* destroys the object, with one decrement, exactly when it drops the
\* last reference.
C11_LiveKernelCount ==
    /\ [](/\ liveKernels = Cardinality(AliveKernels)
          /\ \A k \in KernelIds : k \in AliveKernels <=> refs[k] > 0)
    /\ [][/\ ret'.op \in {"clCreateKernel", "clCloneKernel"}
             => IF ret'.code = "CL_SUCCESS"
                THEN /\ liveKernels' = liveKernels + 1
                     /\ AliveKernels' = AliveKernels \cup {ret'.kernel}
                     /\ ret'.kernel \notin AliveKernels
                ELSE liveKernels' = liveKernels /\ kernels' = kernels
          /\ ret'.op = "clRetainKernel"
             => liveKernels' = liveKernels /\ kernels' = kernels
          /\ (ret'.op = "clReleaseKernel" /\ ret'.kernel # 0)
             => IF refs[ret'.kernel] = 1
                THEN /\ liveKernels' = liveKernels - 1
                     /\ AliveKernels' = AliveKernels \ {ret'.kernel}
                ELSE liveKernels' = liveKernels /\ kernels' = kernels]_vars

\* A kernel and its clone existed and one of them was retained; the other
\* has now been destroyed by the release of its only reference.
C11_Witness ==
    /\ ret.op = "clReleaseKernel"
    /\ ret.kernel # 0
    /\ kernels[ret.kernel] = NoKernel
    /\ liveKernels = 1
    /\ \E k \in AliveKernels : refs[k] = 2

\* C12: the construction that follows a scan reads the artifact the scan
\* selected under the lock, whatever rebuilds ran in between: it does not
\* fault, and a kernel it returns carries the metadata that was validated.
C12_SelectedMetadataStays ==
    [][(pending # NoPending /\ pending' = NoPending)
       => /\ ~crashed'
          /\ ret'.code = "CL_SUCCESS"
             => kernels'[ret'.kernel].m_Dxil.metadata = pending.validated]_vars

LocalArgs(K) ==
    {i \in DOMAIN K.m_Dxil.metadata.args : K.m_Dxil.metadata.args[i].properties.kind = "Local"}

\* C13: binding a __local pointer argument fails for size 0 and for a non-null
\* value; every nonzero size N given with a null value is accepted, leaves the
\* blob as it was, is recorded as N in the argument's configuration, and the
\* local-memory footprint reported afterwards has moved by N minus what was
\* recorded before.
C13_LocalSizeRecorded ==
    \A k \in AliveKernels :
       LET K == kernels[k] IN
       \A i \in LocalArgs(K) :
          \A arg_size \in ArgSizesAt(K, i) :
             \A arg_value \in ArgValues(K, i, arg_size) :
                \A o \in SetArgOutcomes(K, i, arg_size, arg_value) :
                   IF arg_size = SizeT(0) \/ arg_value # PtrNull
                   THEN IsError(o.code) /\ o.K = K
                   ELSE /\ o.outcome = "return" /\ o.code = "CL_SUCCESS"
                        /\ o.K.m_KernelArgsCbData = K.m_KernelArgsCbData
                        /\ SizeT(o.K.m_ArgMetadataToCompiler[i].config.size) = arg_size
                        /\ SizeT(LocalMemSize(o.K).lo - LocalMemSize(K).lo
                                 + K.m_ArgMetadataToCompiler[i].config.size) = arg_size

SamplerArgs(K) ==
    {i \in DOMAIN K.m_Dxil.metadata.args :
        /\ K.m_Dxil.metadata.program_kernel_info.args[i].address_qualifier = "Private"
        /\ K.m_Dxil.metadata.program_kernel_info.args[i].type_name = "sampler_t"}

\* C14: a successful bind of a sampler argument stores the sampler (null
\* included) at the argument's sampler slot and makes the configuration entry
\* the snapshot of its descriptor: the normalized-coordinates flag, the
\* addressing mode minus CL_ADDRESS_NONE, and whether the filter mode is linear;
\* for a null sampler the entry is normalized 1, addressing 0, filtering 0,
\* whatever was bound before.
C14_SamplerSnapshot ==
    \A k \in AliveKernels :
       LET K == kernels[k] IN
       \A i \in SamplerArgs(K) :
          \A arg_value \in ArgValues(K, i, SizeT(SizeofClSampler)) :
             \A o \in SetArgOutcomes(K, i, SizeT(SizeofClSampler), arg_value) :
                LET sampler == HandleAt(arg_value)
                    config == o.K.m_ArgMetadataToCompiler[i].config
                IN  o.code = "CL_SUCCESS"
                    => /\ o.K.m_Samplers[K.m_Dxil.metadata.args[i].properties.sampler_id] = sampler
                       /\ IF sampler = Null
                          THEN /\ config.normalizedCoords = 1
                               /\ config.addressingMode = 0
                               /\ config.linearFiltering = 0
                          ELSE /\ config.normalizedCoords = SamplerDescOf(sampler).NormalizedCoords
                               /\ config.addressingMode
                                     = SamplerDescOf(sampler).AddressingMode - CL_ADDRESS_NONE
                               /\ (config.linearFiltering = 1)
                                     = (SamplerDescOf(sampler).FilterMode = CL_FILTER_LINEAR)
                               /\ config.linearFiltering \in {0, 1}

\* The last call bound the clamping, linear sampler to a sampler argument, and
\* binding null in its place is possible from here.
C14_Witness ==
    /\ ret.op = "clSetKernelArg" /\ ret.code = "CL_SUCCESS"
    /\ kernels[ret.kernel] # NoKernel
    /\ ret.arg_index \in SamplerArgs(kernels[ret.kernel])
    /\ LET K == kernels[ret.kernel]
           slot == K.m_Dxil.metadata.args[ret.arg_index].properties.sampler_id
       IN  /\ K.m_Samplers[slot] = Smp1
           /\ K.m_ArgMetadataToCompiler[ret.arg_index].config.addressingMode = 3
           /\ \E o \in SetArgOutcomes(K, ret.arg_index, SizeT(SizeofClSampler), PtrNull) :
                 o.code = "CL_SUCCESS" /\ o.K.m_Samplers[slot] = Null

ScalarArgs(K) ==
    {i \in DOMAIN K.m_Dxil.metadata.args : K.m_Dxil.metadata.args[i].properties.kind = "Scalar"}

\* C15: binding a scalar argument succeeds exactly when the size given equals
\* the compiled size of the argument; the blob then holds the bytes given at
\* [offset, offset + size) and its other bytes are as before; with any other
\* size the call returns CL_INVALID_ARG_SIZE and the kernel is as before.
C15_ScalarCopy ==
    \A k \in AliveKernels :
       LET K == kernels[k] IN
       \A i \in ScalarArgs(K) :
          \A arg_size \in ArgSizesAt(K, i) :
             \A arg_value \in ArgValues(K, i, arg_size) :
                \A o \in SetArgOutcomes(K, i, arg_size, arg_value) :
                   LET arg_meta == K.m_Dxil.metadata.args[i] IN
                   IF arg_size = SizeT(arg_meta.size)
                   THEN /\ o.outcome = "return"
                        /\ o.code = "CL_SUCCESS"
                        /\ \A b \in DOMAIN K.m_KernelArgsCbData :
                              o.K.m_KernelArgsCbData[b]
                                 = IF b >= arg_meta.offset /\ b < arg_meta.offset + arg_meta.size
                                   THEN arg_value.bytes[b - arg_meta.offset]
                                   ELSE K.m_KernelArgsCbData[b]
                        /\ [o.K EXCEPT !.m_KernelArgsCbData = K.m_KernelArgsCbData] = K
                   ELSE o.outcome = "return" /\ o.code = "CL_INVALID_ARG_SIZE" /\ o.K = K

\* The table an image argument is bound in, and the slot ids it lists.
TableOf(K, i) ==
    IF K.m_Dxil.metadata.program_kernel_info.args[i].writable THEN K.m_UAVs ELSE K.m_SRVs

SlotsOf(K, i) ==
    LET imageMeta == K.m_Dxil.metadata.args[i].properties
    IN  {imageMeta.buffer_ids[j] : j \in 0..(imageMeta.num_buffer_ids - 1)}

\* C16: in every state clSetKernelArg calls lead to, the slot ids of an image
\* argument that lists several hold one and the same reference (one resource,
\* or null at all of them).
C16_PlanesAgree ==
    \A k \in AliveKernels :
       \A i \in ImageArgs(kernels[k]) :
          \A s, t \in SlotsOf(kernels[k], i) :
             TableOf(kernels[k], i)[s] = TableOf(kernels[k], i)[t]

\* The slot entries of argument i: those of its image slots, of its buffer
\* slot or of its sampler slot.
SlotEntries(K, i) ==
    LET properties == K.m_Dxil.metadata.args[i].properties
    IN  CASE i \in ImageArgs(K) -> [s \in SlotsOf(K, i) |-> TableOf(K, i)[s]]
          [] i \in BufferArgs(K) -> [s \in {properties.buffer_id} |-> K.m_UAVs[s]]
          [] i \in SamplerArgs(K) -> [s \in {properties.sampler_id} |-> K.m_Samplers[s]]
          [] OTHER -> EmptyVec

\* The state associated with argument i: its slot entries, its range of the
\* blob and its entry of the compiler configuration.
ArgState(K, i) ==
    LET arg_meta == K.m_Dxil.metadata.args[i]
    IN  <<SlotEntries(K, i),
          ReadBytes(K.m_KernelArgsCbData, arg_meta.offset, arg_meta.size),
          K.m_ArgMetadataToCompiler[i].config>>

\* K with the state associated with argument i as construction leaves it.
Unbound(K, i) ==
    LET arg_meta == K.m_Dxil.metadata.args[i]
        properties == arg_meta.properties
        cleared == [K EXCEPT !.m_KernelArgsCbData =
                                 WriteBytes(@, arg_meta.offset,
                                            [b \in 0..(arg_meta.size - 1) |-> 0], arg_meta.size),
                             !.m_ArgMetadataToCompiler[i].config = InitialConfig(arg_meta)]
    IN  CASE i \in ImageArgs(K) /\ K.m_Dxil.metadata.program_kernel_info.args[i].writable ->
               [cleared EXCEPT !.m_UAVs = StoreAtImageSlots(@, properties, Null)]
          [] i \in ImageArgs(K) /\ ~K.m_Dxil.metadata.program_kernel_info.args[i].writable ->
               [cleared EXCEPT !.m_SRVs = StoreAtImageSlots(@, properties, Null)]
          [] i \in BufferArgs(K) -> [cleared EXCEPT !.m_UAVs[properties.buffer_id] = Null]
          [] i \in SamplerArgs(K) -> [cleared EXCEPT !.m_Samplers[properties.sampler_id] = Null]
          [] OTHER -> cleared

\* C17: a successful bind of argument i replaces: the state associated with i
\* afterwards is what the same call gives on a kernel where i was never bound,
\* whatever i held before; every slot of i then holds the handle just given
\* (none holds what it held before, all are empty after null); and the same
\* call made again changes nothing.
C17_Replacing ==
    \A k \in AliveKernels :
       LET K == kernels[k] IN
       \A i \in DOMAIN K.m_Dxil.metadata.args :
          \A arg_size \in ArgSizesAt(K, i) :
             \A arg_value \in ArgValues(K, i, arg_size) :
                \A o \in SetArgOutcomes(K, i, arg_size, arg_value) :
                   o.code = "CL_SUCCESS"
                   => /\ LET unbound == SetArgOutcomes(Unbound(K, i), i, arg_size, arg_value)
                         IN  /\ unbound # {}
                             /\ \A fresh \in unbound :
                                   /\ fresh.code = "CL_SUCCESS"
                                   /\ ArgState(fresh.K, i) = ArgState(o.K, i)
                      /\ \A s \in DOMAIN SlotEntries(o.K, i) :
                            SlotEntries(o.K, i)[s] = HandleAt(arg_value)
                      /\ \A again \in SetArgOutcomes(o.K, i, arg_size, arg_value) :
                            again.code = "CL_SUCCESS" /\ again.K = o.K

\* The last call bound the read-only image to the src argument of a blit
\* kernel; from here binding the read-write image succeeds and leaves the
\* read-only image at no slot of the argument, and binding null empties them.
C17_Witness ==
    /\ ret.op = "clSetKernelArg" /\ ret.code = "CL_SUCCESS" /\ ret.arg_index = 0
    /\ kernels[ret.kernel] # NoKernel
    /\ kernels[ret.kernel].m_Name = "blit"
    /\ kernels[ret.kernel].m_SRVs[0] = Img2dRO
    /\ \E o \in SetArgOutcomes(kernels[ret.kernel], 0, SizeT(SizeofClMem), PtrToHandle(Img2dRW)) :
          o.code = "CL_SUCCESS" /\ o.K.m_SRVs[0] = Img2dRW
    /\ \E o \in SetArgOutcomes(kernels[ret.kernel], 0, SizeT(SizeofClMem), PtrNull) :
          o.code = "CL_SUCCESS" /\ o.K.m_SRVs[0] = Null

\* The 32-bit little-endian value the blob holds at offset.
UintAt(blob, offset) ==
    blob[offset] + 256 * blob[offset + 1] + 65536 * blob[offset + 2]
       + 16777216 * blob[offset + 3]

\* C18: a successful bind of an image argument leaves a cl_image_format at the
\* argument's offset of the blob: for a resource, its channel order minus CL_R
\* followed by its channel data type minus CL_SNORM_INT8; for null, eight zero
\* bytes, whatever was bound before.
C18_ImageHeader ==
    \A k \in AliveKernels :
       LET K == kernels[k] IN
       \A i \in ImageArgs(K) :
          \A arg_value \in ArgValues(K, i, SizeT(SizeofClMem)) :
             \A o \in SetArgOutcomes(K, i, SizeT(SizeofClMem), arg_value) :
                LET resource == HandleAt(arg_value)
                    offset == K.m_Dxil.metadata.args[i].offset
                    blob == o.K.m_KernelArgsCbData
                IN  o.code = "CL_SUCCESS"
                    => IF resource = Null
                       THEN \A b \in offset..(offset + 7) : blob[b] = 0
                       ELSE /\ UintAt(blob, offset)
                                 = ResourceOf(resource).m_Format.image_channel_order - CL_R
                            /\ UintAt(blob, offset + 4)
                                 = ResourceOf(resource).m_Format.image_channel_data_type
                                      - CL_SNORM_INT8

\* The last call bound the read-only image (order 0x10B6, type 0x10DE) to the
\* src argument of a blit kernel: the header reads 6 and 14, and binding null
\* from here zeroes it.
C18_Witness ==
    /\ ret.op = "clSetKernelArg" /\ ret.code = "CL_SUCCESS" /\ ret.arg_index = 0
    /\ kernels[ret.kernel] # NoKernel
    /\ kernels[ret.kernel].m_Name = "blit"
    /\ kernels[ret.kernel].m_SRVs[0] = Img2dRO
    /\ UintAt(kernels[ret.kernel].m_KernelArgsCbData, 0) = 6
    /\ UintAt(kernels[ret.kernel].m_KernelArgsCbData, 4) = 14
    /\ \E o \in SetArgOutcomes(kernels[ret.kernel], 0, SizeT(SizeofClMem), PtrNull) :
          o.code = "CL_SUCCESS" /\ \A b \in 0..7 : o.K.m_KernelArgsCbData[b] = 0

\* n = m + 1 as numbers, for cl_uint values n and m.
IsSuccessor(n, m) ==
    \/ n.hi = m.hi /\ n.lo = m.lo + 1
    \/ n.hi = m.hi + 1 /\ n.lo = 0 /\ m.lo = 65535

\* C19: the number of constant buffers a kernel declares is one more than the
\* larger of the two constant-buffer indexes of its metadata, for every pair
\* of cl_uint indexes, 0xFFFFFFFF included.
C19_ConstantBufferCount ==
    \A k \in AliveKernels :
       LET metadata == kernels[k].m_Dxil.metadata
           larger == IF Greater(metadata.kernel_inputs_cbv_id, metadata.work_properties_cbv_id)
                     THEN metadata.kernel_inputs_cbv_id
                     ELSE metadata.work_properties_cbv_id
       IN  IsSuccessor(kernels[k].m_ShaderDecls.m_NumCBs, larger)

\* The arguments of the Global and Constant address spaces.
MemArgs(K) ==
    {i \in DOMAIN K.m_Dxil.metadata.args :
        IsMemAddressSpace(K.m_Dxil.metadata.program_kernel_info.args[i].address_qualifier)}

IsImageTyped(K, i) ==
    MemObjectTypeFromName(K.m_Dxil.metadata.program_kernel_info.args[i].type_name) # "0"

\* The dimension a slot has to be declared with to take the resource h.
DimensionOfResource(h) ==
    IF IsPlainBuffer(h) THEN "BUFFER"
    ELSE ResourceDimensionFromMemObjectType(ResourceOf(h).image_type)

\* The declaration of argument i: table and slots, with the dimension tag.
DeclaredAsStated(K, i) ==
    LET arg_info == K.m_Dxil.metadata.program_kernel_info.args[i]
        properties == K.m_Dxil.metadata.args[i].properties
    IN  IF IsImageTyped(K, i)
        THEN \A j \in 0..(properties.num_buffer_ids - 1) :
                (IF arg_info.writable THEN K.m_ShaderDecls.m_UAVDecls
                                      ELSE K.m_ShaderDecls.m_ResourceDecls)[properties.buffer_ids[j]]
                   = ResourceDimensionFromMemObjectType(MemObjectTypeFromName(arg_info.type_name))
        ELSE K.m_ShaderDecls.m_UAVDecls[properties.buffer_id] = "BUFFER"

\* The successful bind of handle to argument i of K, leaving after, wrote
\* the declared table at the declared slots and no other entry.
BoundWhereDeclared(K, i, after, handle) ==
    LET arg_info == K.m_Dxil.metadata.program_kernel_info.args[i]
        properties == K.m_Dxil.metadata.args[i].properties
        slots == IF IsImageTyped(K, i)
                 THEN {properties.buffer_ids[j] : j \in 0..(properties.num_buffer_ids - 1)}
                 ELSE {properties.buffer_id}
        uav == ~IsImageTyped(K, i) \/ arg_info.writable
    IN  /\ \A s \in DOMAIN K.m_UAVs :
              after.m_UAVs[s] = IF uav /\ s \in slots THEN handle ELSE K.m_UAVs[s]
        /\ \A s \in DOMAIN K.m_SRVs :
              after.m_SRVs[s] = IF ~uav /\ s \in slots THEN handle ELSE K.m_SRVs[s]

\* C20: each Global or Constant argument is declared as stated (an image
\* type with its dimension at every listed slot of the UAV table when
\* writable and of the SRV table otherwise, any other type as BUFFER at its
\* slot of the UAV table); a successful bind of the argument writes that table
\* at exactly those slots; and every application resource found in a table sits
\* at a slot declared with the dimension of the resource's kind.
C20_DeclarationsMatchBindings ==
    \A k \in AliveKernels :
       LET K == kernels[k] IN
       /\ \A i \in MemArgs(K) :
             /\ DeclaredAsStated(K, i)
             /\ \A arg_value \in ArgValues(K, i, SizeT(SizeofClMem)) :
                   \A o \in SetArgOutcomes(K, i, SizeT(SizeofClMem), arg_value) :
                      o.code = "CL_SUCCESS" => BoundWhereDeclared(K, i, o.K, HandleAt(arg_value))
       /\ \A s \in DOMAIN K.m_UAVs :
             K.m_UAVs[s] \in Resources
                => K.m_ShaderDecls.m_UAVDecls[s] = DimensionOfResource(K.m_UAVs[s])
       /\ \A s \in DOMAIN K.m_SRVs :
             K.m_SRVs[s] \in Resources
                => K.m_ShaderDecls.m_ResourceDecls[s] = DimensionOfResource(K.m_SRVs[s])

\* The entries of the tables that hold the literal resources of K.
LiteralSlots(K) ==
    <<[j \in DOMAIN K.m_Dxil.metadata.consts |-> K.m_UAVs[K.m_Dxil.metadata.consts[j].uav_id]],
      [j \in DOMAIN K.m_Dxil.metadata.constSamplers |->
          K.m_Samplers[K.m_Dxil.metadata.constSamplers[j].sampler_id]],
      K.m_InlineConsts, K.m_ConstSamplers>>

\* C21: a successful clSetKernelArg on an argument of the kernel changes at
\* most that argument's slot entries, blob range and configuration entry: the
\* state of every other argument, the literal resources and their slots, the
\* declarations, everything else of the kernel object, the other kernel
\* objects and the reference counts are as before; a Local or sampler
\* argument leaves the blob as it was, a scalar argument the three tables.
C21_SetArgFrame ==
    [][(/\ ret'.op = "clSetKernelArg" /\ ret'.code = "CL_SUCCESS"
        /\ calls' = calls + 1
        /\ ret'.arg_index \in DOMAIN kernels[ret'.kernel].m_Dxil.metadata.args)
       => LET before == kernels[ret'.kernel]
              after == kernels'[ret'.kernel]
              i == ret'.arg_index
          IN  /\ \A j \in DOMAIN before.m_Dxil.metadata.args \ {i} :
                    ArgState(after, j) = ArgState(before, j)
              /\ LiteralSlots(after) = LiteralSlots(before)
              /\ after.m_ShaderDecls = before.m_ShaderDecls
              /\ Unbound(after, i) = Unbound(before, i)
              /\ refs' = refs
              /\ liveKernels' = liveKernels
              /\ \A other \in KernelIds \ {ret'.kernel} : kernels'[other] = kernels[other]
              /\ (i \in LocalArgs(before) \cup SamplerArgs(before))
                    => after.m_KernelArgsCbData = before.m_KernelArgsCbData
              /\ i \in ScalarArgs(before)
                    => /\ after.m_UAVs = before.m_UAVs
                       /\ after.m_SRVs = before.m_SRVs
                       /\ after.m_Samplers = before.m_Samplers]_vars

\* The last call set the scalar argument of a saxpy kernel whose buffer
\* argument holds the buffer and whose literal constant sits at UAV slot 0.
C21_Witness ==
    /\ ret.op = "clSetKernelArg" /\ ret.code = "CL_SUCCESS" /\ ret.arg_index = 1
    /\ kernels[ret.kernel] # NoKernel
    /\ kernels[ret.kernel].m_Name = "saxpy"
    /\ kernels[ret.kernel].m_UAVs[1] = Buf1
    /\ kernels[ret.kernel].m_UAVs[0] = InlineConstObj(ret.kernel, 0)
    /\ kernels[ret.kernel].m_KernelArgsCbData[8] = 7

\* The blob and the UAV table agree on the buffer argument i of K: the slot
\* is null exactly when the 8 bytes at the argument's offset are ~0ull, and
\* holds a resource exactly when they are the slot id in the upper 32 bits.
BlobAgreesWithSlot(K, i) ==
    LET S == K.m_Dxil.metadata.args[i].properties.buffer_id
        value == ReadBytes(K.m_KernelArgsCbData, K.m_Dxil.metadata.args[i].offset, 8)
    IN  /\ (K.m_UAVs[S] = Null) <=> (value = AllOnes64)
        /\ (K.m_UAVs[S] # Null) <=> (value = LE64(S, 0))

\* C22: from the first successful bind of a plain-buffer argument on, the
\* blob and the UAV table agree on it in every state clSetKernelArg calls
\* lead to: a successful bind of the argument leaves them agreeing, and no
\* call on a kernel where they agree leaves them disagreeing.
C22_BlobAgreesWithSlot ==
    [][\A k \in KernelIds :
          (kernels[k] # NoKernel /\ kernels'[k] # NoKernel)
          => \A i \in BufferArgs(kernels[k]) :
                /\ (/\ ret'.op = "clSetKernelArg" /\ ret'.code = "CL_SUCCESS"
                    /\ calls' = calls + 1
                    /\ ret'.kernel = k /\ ret'.arg_index = i)
                   => BlobAgreesWithSlot(kernels'[k], i)
                /\ BlobAgreesWithSlot(kernels[k], i) => BlobAgreesWithSlot(kernels'[k], i)]_vars

\* The literal objects the sampler and UAV tables of K refer to.
LiteralsInSlots(K) ==
    {o \in {K.m_Samplers[s] : s \in DOMAIN K.m_Samplers}
               \cup {K.m_UAVs[s] : s \in DOMAIN K.m_UAVs} :
        o.tag \in {"inlineConst", "constSampler"}}

\* The live kernel objects that own a reference to the literal object o.
Sharing(o) == {k \in AliveKernels : o \in LiteralsOf(kernels[k])}

\* C23: a clone owns references to the very literal samplers and inline
\* constants of its source; every literal object a live kernel refers to
\* from its sampler or UAV table is alive, in whatever order its source and
\* clones were destroyed; and a literal object is destroyed exactly when the
\* last kernel object sharing it has been destroyed.
C23_LiteralsOutliveSharers ==
    /\ (/\ ret.op = "clCloneKernel" /\ ret.code = "CL_SUCCESS"
        /\ kernels[ret.source_kernel] # NoKernel)
       => /\ LiteralsOf(kernels[ret.kernel]) = LiteralsOf(kernels[ret.source_kernel])
          /\ \A o \in LiteralsOf(kernels[ret.kernel]) : Cardinality(Sharing(o)) >= 2
    /\ \A k \in AliveKernels :
          \A o \in LiteralsInSlots(kernels[k]) : o \in DOMAIN literals /\ literals[o] > 0
    /\ \A o \in DOMAIN literals : (literals[o] = 0) <=> (Sharing(o) = {})

\* The source of a clone has been destroyed by the last call; the clone
\* lives on and refers to the inline constant the source created, which is
\* alive and held by the clone alone.
C23_Witness ==
    /\ ret.op = "clReleaseKernel" /\ ret.code = "CL_SUCCESS"
    /\ ret.kernel # 0
    /\ kernels[ret.kernel] = NoKernel
    /\ \E k \in AliveKernels :
          /\ kernels[k].m_UAVs[0] = InlineConstObj(ret.kernel, 0)
          /\ literals[InlineConstObj(ret.kernel, 0)] = 1

\* The entries of the output array that were written.
Written(array) == {j \in DOMAIN array : array[j] # 0}

\* The errors clCreateKernel can report for a kernel name of the program.
CreateErrors(name) ==
    {a.code : a \in {b \in CreateKernelIn(Objects(kernels, liveKernels, refs, literals),
                                          buildData, name) : b.outcome = "error"}}

\* C24: clCreateKernelsInProgram with a non-zero num_kernels returns, and
\* either succeeds with the array holding one new kernel for each kernel name
\* of the devices with a successful executable build, or fails with nothing
\* written to the array and the kernel objects and the live-kernel count as
\* before the call: with CL_INVALID_VALUE when num_kernels is below the number
\* of names, else with the error of a clCreateKernel call.
C24_CreateAllOrNothing ==
    [][(/\ ret'.op = "clCreateKernelsInProgram"
        /\ calls' # calls
        /\ DOMAIN out' # {}
        /\ NamesInProgram(buildData) # {})
       => LET names == NamesInProgram(buildData)
              num_kernels == Cardinality(DOMAIN out')
          IN  /\ ~crashed'
              /\ num_kernels < Cardinality(names) => ret'.code = "CL_INVALID_VALUE"
              /\ IF ret'.code = "CL_SUCCESS"
                 THEN /\ Cardinality(Written(out')) = Cardinality(names)
                      /\ \A j \in Written(out') :
                            /\ kernels[out'[j]] = NoKernel
                            /\ kernels'[out'[j]] # NoKernel
                            /\ refs'[out'[j]] = 1
                      /\ {kernels'[out'[j]].m_Name : j \in Written(out')} = names
                      /\ \A i, j \in Written(out') : out'[i] = out'[j] => i = j
                      /\ liveKernels' = liveKernels + Cardinality(names)
                      /\ \A k \in KernelIds \ {out'[j] : j \in Written(out')} :
                            kernels'[k] = kernels[k]
                 ELSE /\ Written(out') = {}
                      /\ kernels' = kernels
                      /\ liveKernels' = liveKernels
                      /\ refs' = refs
                      /\ \A o \in DOMAIN literals' :
                            literals'[o] = IF o \in DOMAIN literals THEN literals[o] ELSE 0
                      /\ num_kernels >= Cardinality(names)
                            => ret'.code \in UNION {CreateErrors(name) : name \in names}]_vars

====
